---- MODULE Spec2Model ----
(***************************************************************************)
(* TerraRoute: shortest paths over a network of LineStrings.               *)
(*                                                                         *)
(* The router interns coordinates to dense node indices, keeps the graph   *)
(* in CSR arrays (offsets / indices / distances), and answers getRoute     *)
(* with a bidirectional Dijkstra search over two priority queues (the      *)
(* default FourAryHeap).  Every public method runs to completion, so each  *)
(* is one atomic action of the model.                                      *)
(*                                                                         *)
(* Arrays of the program are 0-based; they are modelled as TLA+ sequences  *)
(* and read / written through At and SetAt, which take the 0-based index.  *)
(***************************************************************************)
EXTENDS Integers, Sequences, FiniteSets, TLC

\* Longest LineString (number of coordinates) the host passes to buildRouteGraph
MaxLineLen == 2
\* Longest LineString of the network that SpecSearch builds
MaxSearchLineLen == 5
\* Longest LineString the host passes to expandRouteGraph
MaxExpandLineLen == 3
\* Largest number of features the merged network may hold (build + expands)
MaxFeatures == 2
\* Longest LineString of the network that SpecQueues builds
MaxQueueLineLen == 5
\* Calls of insert on a heap driven on its own, over its whole life
MaxInserts == 6
\* Keys of the entries inserted into it: 1..MaxKey
MaxKey == 2
MaxLng == 4
MaxDetourLineLen == 6
MaxAllocated == 6

\* Number.POSITIVE_INFINITY: larger than every finite cost, absorbing under Plus
Infinity == 1000000
\* null / undefined of the program, and a present value: a nullable field
\* holds Null or Ref(v)
Null == [null |-> TRUE]
Ref(v) == [null |-> FALSE, val |-> v]

\* The coordinate universe: a 2 x 2 grid of [lng, lat] positions
Lngs == {0, 1}
Lats == {0, 1}
Coords == {<<x, y>> : x \in Lngs, y \in Lats}

\* The distance functions the host may plug in (all symmetric, non-negative)
DistanceFns == {"manhattan", "squared", "lngOnly"}

Abs(x) == IF x < 0 THEN -x ELSE x
Min2(x, y) == IF x < y THEN x ELSE y

\* manhattan: a metric (the diagonal of the grid ties with two sides);
\* squared: the square of manhattan (two sides are strictly cheaper than the
\* diagonal); lngOnly: the difference of longitudes (distinct coordinates at
\* distance 0)
Measure(fn, a, b) ==
    LET manhattan == Abs(a[1] - b[1]) + Abs(a[2] - b[2]) IN
    CASE fn = "manhattan" -> manhattan
      [] fn = "squared"   -> manhattan * manhattan
      [] OTHER            -> Abs(a[1] - b[1])

---------------------------------------------------------------------------
\* 0-based array access
At(arr, i) == arr[i + 1]
SetAt(arr, i, v) == [arr EXCEPT ![i + 1] = v]
Fill(n, v) == [i \in 1..n |-> v]
\* typedArray.fill(v, 0, n): the first n slots are overwritten, the rest kept
FillPrefix(arr, v, n) == [i \in 1..Len(arr) |-> IF i <= n THEN v ELSE arr[i]]
Plus(a, b) == IF a = Infinity \/ b = Infinity THEN Infinity ELSE a + b
\* Fault variant of Reverse: the collected prefix is left in walk order
Unreversed(s) == s

Reverse(s) == [i \in 1..Len(s) |-> s[Len(s) + 1 - i]]

\* Map<number, Map<number, number>>: lng -> (lat -> index)
EmptyMap == << >>
MapHas(m, k) == k \in DOMAIN m
MapSet(m, k, v) == [x \in (DOMAIN m) \cup {k} |-> IF x = k THEN v ELSE m[x]]
Indexed(map, coord) == MapHas(map, coord[1]) /\ MapHas(map[coord[1]], coord[2])

---------------------------------------------------------------------------
VARIABLES
    network,             \* null, or the features (LineStrings) of the last network
    distanceMeasurement, \* the distance function chosen at construction
    heapConstructor,     \* the heap class chosen at construction
    coordinateIndexMap,  \* lng -> lat -> node index
    coordinates,         \* node index -> coordinate
    adjacencyList,       \* sparse per-node neighbour arrays (Null: an empty slot)
    csrOffsets, csrIndices, csrDistances, csrNodeCount,
    gScoreScratch, cameFromScratch, visitedScratch,
    gScoreRevScratch, cameFromRevScratch, visitedRevScratch,
    scratchCapacity,
    openForward, openReverse, \* the reused heaps (null before the first search)
    ret,                 \* the last call: its arguments and what it returned or threw
    pq,                  \* a heap a host drives on its own (null while a router is driven)
    pqHistory            \* what the host of pq has done to it so far

graphVars == <<network, coordinateIndexMap, coordinates, adjacencyList,
               csrOffsets, csrIndices, csrDistances, csrNodeCount>>
scratchVars == <<gScoreScratch, cameFromScratch, visitedScratch,
                 gScoreRevScratch, cameFromRevScratch, visitedRevScratch,
                 scratchCapacity, openForward, openReverse>>
\* What no method of the router writes
fixedVars == <<distanceMeasurement, heapConstructor, pq, pqHistory>>
vars == <<network, distanceMeasurement, heapConstructor, coordinateIndexMap, coordinates,
          adjacencyList, csrOffsets, csrIndices, csrDistances, csrNodeCount,
          gScoreScratch, cameFromScratch, visitedScratch,
          gScoreRevScratch, cameFromRevScratch, visitedRevScratch,
          scratchCapacity, openForward, openReverse, ret, pq, pqHistory>>

\* The history of a heap no host has touched
NoHistory == [live |-> << >>, inserts |-> 0, extracts |-> 0, inserted |-> 0, twin |-> Null]

\* State after `new TerraRoute({ distanceMeasurement, heap })`, the distance
\* function being one of fns and the heap class one of heaps
Constructor(fns, heaps) ==
    /\ network = Null
    /\ distanceMeasurement \in fns
    /\ heapConstructor \in heaps
    /\ coordinateIndexMap = EmptyMap
    /\ coordinates = << >>
    /\ adjacencyList = << >>
    /\ csrOffsets = Null
    /\ csrIndices = Null
    /\ csrDistances = Null
    /\ csrNodeCount = 0
    \* the scratch arrays are null until the first search; null and the empty
    \* array are told apart nowhere (scratchCapacity is 0 for both)
    /\ gScoreScratch = << >>
    /\ cameFromScratch = << >>
    /\ visitedScratch = << >>
    /\ gScoreRevScratch = << >>
    /\ cameFromRevScratch = << >>
    /\ visitedRevScratch = << >>
    /\ scratchCapacity = 0
    /\ openForward = Null
    /\ openReverse = Null
    /\ ret = [op |-> "new"]
    /\ pq = Null
    /\ pqHistory = NoHistory

\* The default heap class
DefaultHeap == "FourAryHeap"

Init == Constructor(DistanceFns, {DefaultHeap})

---------------------------------------------------------------------------
\* forEachSegment: the consecutive coordinate pairs of every feature, in order
RECURSIVE LineSegments(_, _)
LineSegments(line, i) ==
    IF i >= Len(line) THEN << >>
    ELSE << <<line[i], line[i + 1]>> >> \o LineSegments(line, i + 1)

RECURSIVE ForEachSegment(_)
ForEachSegment(features) ==
    IF features = << >> THEN << >>
    ELSE LineSegments(Head(features), 1) \o ForEachSegment(Tail(features))

\* Fault variant of IndexCoordinate: a new latitude replaces the latitudes
\* already held under its longitude
IndexCoordinateFreshLatMap(coord, map, coords) ==
    IF Indexed(map, coord)
    THEN [idx |-> map[coord[1]][coord[2]], map |-> map, coords |-> coords, isNew |-> FALSE]
    ELSE [idx |-> Len(coords),
          map |-> MapSet(map, coord[1], MapSet(EmptyMap, coord[2], Len(coords))),
          coords |-> Append(coords, coord),
          isNew |-> TRUE]

\* indexCoordinate: look the coordinate up, appending it when it is new
IndexCoordinate(coord, map, coords) ==
    IF Indexed(map, coord)
    THEN [idx |-> map[coord[1]][coord[2]], map |-> map, coords |-> coords, isNew |-> FALSE]
    ELSE LET latMap == IF MapHas(map, coord[1]) THEN map[coord[1]] ELSE EmptyMap
             idx == Len(coords)
         IN [idx |-> idx,
             map |-> MapSet(map, coord[1], MapSet(latMap, coord[2], idx)),
             coords |-> Append(coords, coord),
             isNew |-> TRUE]

\* degree[i] = (degree[i] ?? 0) + 1 on a growing array
Bump(degree, i) ==
    LET grown == IF i + 1 > Len(degree)
                 THEN degree \o Fill(i + 1 - Len(degree), 0) ELSE degree
    IN SetAt(grown, i, At(grown, i) + 1)

\* Pass 1 of buildRouteGraph: assign indices and count degrees
RECURSIVE BuildPass1(_, _)
BuildPass1(segs, acc) ==
    IF segs = << >> THEN acc
    ELSE LET a == IndexCoordinate(Head(segs)[1], acc.map, acc.coords)
             b == IndexCoordinate(Head(segs)[2], a.map, a.coords)
         IN BuildPass1(Tail(segs),
                [map |-> b.map, coords |-> b.coords,
                 degree |-> Bump(Bump(acc.degree, a.idx), b.idx)])

\* offsets[i + 1] = offsets[i] + degree[i]
RECURSIVE PrefixSum(_, _, _)
PrefixSum(degree, n, i) ==
    IF i = 0 THEN <<0>>
    ELSE LET prev == PrefixSum(degree, n, i - 1)
             deg == IF i <= Len(degree) THEN degree[i] ELSE 0
         IN Append(prev, prev[i] + deg)

\* Pass 2 of buildRouteGraph: fill the CSR arrays through a write cursor per node
RECURSIVE BuildPass2(_, _, _, _)
BuildPass2(segs, map, fn, acc) ==
    IF segs = << >> THEN acc
    ELSE LET a == Head(segs)[1]
             b == Head(segs)[2]
             indexA == map[a[1]][a[2]]
             indexB == map[b[1]][b[2]]
             segmentDistance == Measure(fn, a, b)
             posA == At(acc.cursor, indexA)
             cursor1 == SetAt(acc.cursor, indexA, posA + 1)
             indices1 == SetAt(acc.indices, posA, indexB)
             distances1 == SetAt(acc.distances, posA, segmentDistance)
             posB == At(cursor1, indexB)
             cursor2 == SetAt(cursor1, indexB, posB + 1)
         IN BuildPass2(Tail(segs), map, fn,
                [cursor |-> cursor2,
                 indices |-> SetAt(indices1, posB, indexA),
                 distances |-> SetAt(distances1, posB, segmentDistance)])

\* The graph fields buildRouteGraph(net) leaves, fn being the distance function
BuiltGraph(net, fn) ==
    LET segs == ForEachSegment(net)
        p1 == BuildPass1(segs, [map |-> EmptyMap, coords |-> << >>, degree |-> << >>])
        nodeCount == Len(p1.coords)
        offsets == PrefixSum(p1.degree, nodeCount, nodeCount)
        totalEdges == At(offsets, nodeCount)
        p2 == BuildPass2(segs, p1.map, fn,
                [cursor |-> offsets, indices |-> Fill(totalEdges, 0),
                 distances |-> Fill(totalEdges, 0)])
    IN [network |-> Ref(net),
        coordinateIndexMap |-> p1.map,
        coordinates |-> p1.coords,
        csrNodeCount |-> nodeCount,
        csrOffsets |-> Ref(offsets),
        csrIndices |-> Ref(p2.indices),
        csrDistances |-> Ref(p2.distances),
        adjacencyList |-> Fill(nodeCount, Null)]

\* The features of the last network (none before the first build)
Features == IF network.null THEN << >> ELSE network.val

\* Fault variant of BuildRouteGraph: the features of the last network are kept
\* and the new network is merged into them
BuildRouteGraphMerging(net) ==
    LET built == BuiltGraph(Features \o net, distanceMeasurement)
    IN /\ network' = Ref(net)
       /\ coordinateIndexMap' = built.coordinateIndexMap
       /\ coordinates' = built.coordinates
       /\ csrNodeCount' = built.csrNodeCount
       /\ csrOffsets' = built.csrOffsets
       /\ csrIndices' = built.csrIndices
       /\ csrDistances' = built.csrDistances
       /\ adjacencyList' = built.adjacencyList
       /\ ret' = [op |-> "buildRouteGraph", threw |-> FALSE]
       /\ UNCHANGED <<fixedVars, scratchVars>>

\* Fault variant of BuildRouteGraph: the overlay of the last graph is kept
BuildRouteGraphKeepingOverlay(net) ==
    LET built == BuiltGraph(net, distanceMeasurement)
    IN /\ network' = built.network
       /\ coordinateIndexMap' = built.coordinateIndexMap
       /\ coordinates' = built.coordinates
       /\ csrNodeCount' = built.csrNodeCount
       /\ csrOffsets' = built.csrOffsets
       /\ csrIndices' = built.csrIndices
       /\ csrDistances' = built.csrDistances
       /\ adjacencyList' = adjacencyList
       /\ ret' = [op |-> "buildRouteGraph", threw |-> FALSE]
       /\ UNCHANGED <<fixedVars, scratchVars>>

BuildRouteGraph(net) ==
    LET built == BuiltGraph(net, distanceMeasurement)
    IN /\ network' = built.network
       /\ coordinateIndexMap' = built.coordinateIndexMap
       /\ coordinates' = built.coordinates
       /\ csrNodeCount' = built.csrNodeCount
       /\ csrOffsets' = built.csrOffsets
       /\ csrIndices' = built.csrIndices
       /\ csrDistances' = built.csrDistances
       /\ adjacencyList' = built.adjacencyList
       /\ ret' = [op |-> "buildRouteGraph", threw |-> FALSE]
       /\ UNCHANGED <<fixedVars, scratchVars>>

---------------------------------------------------------------------------
\* Fault variant of ExpandSegments: the entry of the second end is not pushed
RECURSIVE ExpandSegmentsOneWay(_, _, _)
ExpandSegmentsOneWay(segs, fn, acc) ==
    IF segs = << >> THEN acc
    ELSE LET a == IndexCoordinate(Head(segs)[1], acc.map, acc.coords)
             adjA == IF a.isNew THEN Append(acc.adj, Ref(<< >>)) ELSE acc.adj
             b == IndexCoordinate(Head(segs)[2], a.map, a.coords)
             adjB == IF b.isNew THEN Append(adjA, Ref(<< >>)) ELSE adjA
             segmentDistance == Measure(fn, Head(segs)[1], Head(segs)[2])
             adj1 == SetAt(adjB, a.idx,
                        Ref(Append(At(adjB, a.idx).val, [node |-> b.idx, distance |-> segmentDistance])))
         IN ExpandSegmentsOneWay(Tail(segs), fn, [map |-> b.map, coords |-> b.coords, adj |-> adj1])

\* adj[indexA].push(...); adj[indexB].push(...) for every segment of the
\* additional network; a new index gets an empty neighbour array first
RECURSIVE ExpandSegments(_, _, _)
ExpandSegments(segs, fn, acc) ==
    IF segs = << >> THEN acc
    ELSE LET a == IndexCoordinate(Head(segs)[1], acc.map, acc.coords)
             adjA == IF a.isNew THEN Append(acc.adj, Ref(<< >>)) ELSE acc.adj
             b == IndexCoordinate(Head(segs)[2], a.map, a.coords)
             adjB == IF b.isNew THEN Append(adjA, Ref(<< >>)) ELSE adjA
             segmentDistance == Measure(fn, Head(segs)[1], Head(segs)[2])
             adj1 == SetAt(adjB, a.idx,
                        Ref(Append(At(adjB, a.idx).val, [node |-> b.idx, distance |-> segmentDistance])))
             adj2 == SetAt(adj1, b.idx,
                        Ref(Append(At(adj1, b.idx).val, [node |-> a.idx, distance |-> segmentDistance])))
         IN ExpandSegments(Tail(segs), fn, [map |-> b.map, coords |-> b.coords, adj |-> adj2])

\* The neighbour entries of node n held in the sparse adjacency list
AdjNeighbors(adj, n) ==
    IF n + 1 > Len(adj) \/ At(adj, n).null THEN << >> ELSE At(adj, n).val

\* Fault variant of CsrSlice: the loop over the row stops one entry early
CsrSliceShort(offsets, indices, distances, n) ==
    [k \in 1..(At(offsets, n + 1) - At(offsets, n) - 1) |->
        [node |-> At(indices, At(offsets, n) + k - 1),
         distance |-> At(distances, At(offsets, n) + k - 1)]]

\* The CSR slice of node n, as a sequence of [node, distance]
CsrSlice(offsets, indices, distances, n) ==
    [k \in 1..(At(offsets, n + 1) - At(offsets, n)) |->
        [node |-> At(indices, At(offsets, n) + k - 1),
         distance |-> At(distances, At(offsets, n) + k - 1)]]

RECURSIVE Flatten(_)
Flatten(rows) == IF rows = << >> THEN << >> ELSE Head(rows) \o Flatten(Tail(rows))

\* Fault variant of RowOffsets: the degree of the last node is not added
RECURSIVE RowOffsetsButLast(_, _)
RowOffsetsButLast(rows, i) ==
    IF i = 0 THEN <<0>>
    ELSE LET prev == RowOffsetsButLast(rows, i - 1)
         IN Append(prev, prev[i] + (IF i = Len(rows) THEN 0 ELSE Len(rows[i])))

RECURSIVE RowOffsets(_, _)
RowOffsets(rows, i) ==
    IF i = 0 THEN <<0>>
    ELSE LET prev == RowOffsets(rows, i - 1) IN Append(prev, prev[i] + Len(rows[i]))

\* Fault variant of RebuildCsrFromAdjacency: the existing CSR entries are copied
\* and the entries of the adjacency list are left out
RebuildCsrFromCsr(coords, adj, offsets, indices, distances, nodeCountCsr) ==
    LET nodeCount == Len(coords)
        covered == IF ~offsets.null /\ ~indices.null /\ ~distances.null
                   THEN Min2(nodeCountCsr, nodeCount) ELSE 0
        rows == [n \in 1..nodeCount |->
                    IF n - 1 < covered
                    THEN CsrSlice(offsets.val, indices.val, distances.val, n - 1) ELSE << >>]
        flat == Flatten(rows)
    IN [csrOffsets |-> Ref(RowOffsets(rows, nodeCount)),
        csrIndices |-> Ref([k \in 1..Len(flat) |-> flat[k].node]),
        csrDistances |-> Ref([k \in 1..Len(flat) |-> flat[k].distance]),
        csrNodeCount |-> nodeCount,
        adjacencyList |-> Fill(nodeCount, Null)]

\* Fault variant of RebuildCsrFromAdjacency: the rebuilt rows hold the entries
\* of the adjacency list only, the existing CSR entries are not copied
RebuildCsrFromOverlay(coords, adj, offsets, indices, distances, nodeCountCsr) ==
    LET nodeCount == Len(coords)
        rows == [n \in 1..nodeCount |-> AdjNeighbors(adj, n - 1)]
        flat == Flatten(rows)
    IN [csrOffsets |-> Ref(RowOffsets(rows, nodeCount)),
        csrIndices |-> Ref([k \in 1..Len(flat) |-> flat[k].node]),
        csrDistances |-> Ref([k \in 1..Len(flat) |-> flat[k].distance]),
        csrNodeCount |-> nodeCount,
        adjacencyList |-> Fill(nodeCount, Null)]

\* Fault variant of RebuildCsrFromAdjacency: per node, the entries of the
\* adjacency list come before the existing CSR entries
RebuildCsrAdjacencyFirst(coords, adj, offsets, indices, distances, nodeCountCsr) ==
    LET nodeCount == Len(coords)
        covered == IF ~offsets.null /\ ~indices.null /\ ~distances.null
                   THEN Min2(nodeCountCsr, nodeCount) ELSE 0
        rows == [n \in 1..nodeCount |->
                    AdjNeighbors(adj, n - 1)
                    \o (IF n - 1 < covered
                        THEN CsrSlice(offsets.val, indices.val, distances.val, n - 1)
                        ELSE << >>)]
        flat == Flatten(rows)
    IN [csrOffsets |-> Ref(RowOffsets(rows, nodeCount)),
        csrIndices |-> Ref([k \in 1..Len(flat) |-> flat[k].node]),
        csrDistances |-> Ref([k \in 1..Len(flat) |-> flat[k].distance]),
        csrNodeCount |-> nodeCount,
        adjacencyList |-> Fill(nodeCount, Null)]

\* rebuildCsrFromAdjacency: per node, the existing CSR entries first, then the
\* entries of the adjacency list; the adjacency list is emptied afterwards
RebuildCsrFromAdjacency(coords, adj, offsets, indices, distances, nodeCountCsr) ==
    LET nodeCount == Len(coords)
        covered == IF ~offsets.null /\ ~indices.null /\ ~distances.null
                   THEN Min2(nodeCountCsr, nodeCount) ELSE 0
        rows == [n \in 1..nodeCount |->
                    (IF n - 1 < covered
                     THEN CsrSlice(offsets.val, indices.val, distances.val, n - 1) ELSE << >>)
                    \o AdjNeighbors(adj, n - 1)]
        flat == Flatten(rows)
    IN [csrOffsets |-> Ref(RowOffsets(rows, nodeCount)),
        csrIndices |-> Ref([k \in 1..Len(flat) |-> flat[k].node]),
        csrDistances |-> Ref([k \in 1..Len(flat) |-> flat[k].distance]),
        csrNodeCount |-> nodeCount,
        adjacencyList |-> Fill(nodeCount, Null)]

NotBuiltError == "Network not built. Please call buildRouteGraph(network) first."

ExpandRouteGraph(net) ==
    IF network.null
    THEN /\ ret' = [op |-> "expandRouteGraph", threw |-> TRUE, error |-> NotBuiltError]
         /\ UNCHANGED <<graphVars, fixedVars, scratchVars>>
    ELSE LET adj0 == [i \in 1..Len(adjacencyList) |->
                        IF adjacencyList[i].null THEN Ref(<< >>) ELSE adjacencyList[i]]
             ex == ExpandSegments(ForEachSegment(net), distanceMeasurement,
                        [map |-> coordinateIndexMap, coords |-> coordinates, adj |-> adj0])
             csr == RebuildCsrFromAdjacency(ex.coords, ex.adj, csrOffsets, csrIndices,
                        csrDistances, csrNodeCount)
         IN /\ network' = Ref(network.val \o net)
            /\ coordinateIndexMap' = ex.map
            /\ coordinates' = ex.coords
            /\ csrOffsets' = csr.csrOffsets
            /\ csrIndices' = csr.csrIndices
            /\ csrDistances' = csr.csrDistances
            /\ csrNodeCount' = csr.csrNodeCount
            /\ adjacencyList' = csr.adjacencyList
            /\ ret' = [op |-> "expandRouteGraph", threw |-> FALSE]
            /\ UNCHANGED <<fixedVars, scratchVars>>

---------------------------------------------------------------------------
(***************************************************************************)
(* FourAryHeap: parallel arrays keys / values / idxs, of which the first   *)
(* `length` slots are live.  The backing arrays never shrink: extractMin   *)
(* and clear leave the slots at and beyond `length` as they are.           *)
(***************************************************************************)
\* arr[i] = v on a JavaScript array: a write at arr.length grows the array
Store(arr, i, v) == IF i + 1 > Len(arr) THEN Append(arr, v) ELSE SetAt(arr, i, v)

NewFourAryHeap ==
    [kind |-> "FourAryHeap", keys |-> << >>, values |-> << >>, idxs |-> << >>,
     length |-> 0, insertCounter |-> 0]

\* The bubble-up loop of insert: parents that do not precede (ck, ci) move down
RECURSIVE FourArySiftUp(_, _, _, _)
FourArySiftUp(h, i, ck, ci) ==
    IF i = 0 THEN [h |-> h, i |-> i]
    ELSE LET p == (i - 1) \div 4
             pk == At(h.keys, p)
             pi == At(h.idxs, p)
         IN IF ck > pk \/ (ck = pk /\ ci > pi) THEN [h |-> h, i |-> i]
            ELSE FourArySiftUp([h EXCEPT !.keys = Store(h.keys, i, pk),
                                         !.values = Store(h.values, i, At(h.values, p)),
                                         !.idxs = Store(h.idxs, i, pi)],
                               p, ck, ci)

FourAryPlace(h, i, k, v, idx) ==
    [h EXCEPT !.keys = Store(h.keys, i, k),
              !.values = Store(h.values, i, v),
              !.idxs = Store(h.idxs, i, idx)]

FourAryPlaceNew(up, key, value, ci) == FourAryPlace(up.h, up.i, key, value, ci)

FourAryInsert(h, key, value) ==
    FourAryPlaceNew(
        FourArySiftUp([h EXCEPT !.length = h.length + 1,
                                !.insertCounter = h.insertCounter + 1],
                      h.length, key, h.insertCounter),
        key, value, h.insertCounter)

\* (key, idx) of slot a precedes (key, idx) of slot b
FourAryBefore(h, a, b) ==
    At(h.keys, a) < At(h.keys, b)
    \/ (At(h.keys, a) = At(h.keys, b) /\ At(h.idxs, a) < At(h.idxs, b))

\* Fault variant of FourAryMinChild: only the first child is looked at
FourAryFirstChild(h, smallest, c) == smallest

\* The child c replaces the smallest child found so far when it is live and precedes it
FourAryMinChild(h, smallest, c) ==
    IF c < h.length /\ FourAryBefore(h, c, smallest) THEN c ELSE smallest

\* bubbleDown: the smallest of the up to four children, by (key, idx), moves up
\* while it precedes the node being placed
RECURSIVE FourAryBubbleDown(_, _, _, _, _)
FourAryBubbleStep(h, i, smallest, nodeK, nodeV, nodeI) ==
    IF At(h.keys, smallest) < nodeK
       \/ (At(h.keys, smallest) = nodeK /\ At(h.idxs, smallest) < nodeI)
    THEN FourAryBubbleDown(
            FourAryPlace(h, i, At(h.keys, smallest), At(h.values, smallest),
                         At(h.idxs, smallest)),
            smallest, nodeK, nodeV, nodeI)
    ELSE FourAryPlace(h, i, nodeK, nodeV, nodeI)

FourAryBubbleDown(h, i, nodeK, nodeV, nodeI) ==
    IF 4 * i + 1 >= h.length
    THEN FourAryPlace(h, i, nodeK, nodeV, nodeI)
    ELSE FourAryBubbleStep(h, i,
            FourAryMinChild(h,
                FourAryMinChild(h,
                    FourAryMinChild(h, 4 * i + 1, 4 * i + 2),
                    4 * i + 3),
                4 * i + 4),
            nodeK, nodeV, nodeI)

FourAryCut(h) == [h EXCEPT !.length = h.length - 1]

\* extractMin: [value |-> null or the value at the root, h |-> the heap afterwards]
FourAryExtractMin(h) ==
    IF h.length = 0 THEN [value |-> Null, h |-> h]
    ELSE [value |-> Ref(At(h.values, 0)),
          h |-> IF h.length - 1 > 0
                THEN FourAryBubbleDown(FourAryCut(h), 0, At(h.keys, h.length - 1),
                                       At(h.values, h.length - 1), At(h.idxs, h.length - 1))
                ELSE FourAryCut(h)]

\* Fault variant of FourAryPeekMinKey: slot 0 is read whatever the length
FourAryPeekSlot(h) == IF Len(h.keys) = 0 THEN Infinity ELSE At(h.keys, 0)

FourAryPeekMinKey(h) == IF h.length = 0 THEN Infinity ELSE At(h.keys, 0)

FourAryClear(h) == [h EXCEPT !.length = 0, !.insertCounter = 0]

FourArySize(h) == h.length

---------------------------------------------------------------------------
(***************************************************************************)
(* MinHeap: a binary heap over one array of { key, value, index } nodes;   *)
(* the array grows by push and shrinks by pop.                             *)
(***************************************************************************)
NewMinHeap == [kind |-> "MinHeap", heap |-> << >>, insertCounter |-> 0]

\* Fault variant of MinHeapSiftUp: the new node stays in the last slot
MinHeapSiftUpInPlace(heap, currentIndex, node) == SetAt(heap, currentIndex, node)

\* The bubble-up loop of insert: the slot the new node ends in, the parents
\* passed on the way moved down
RECURSIVE MinHeapSiftUp(_, _, _)
MinHeapSiftUp(heap, currentIndex, node) ==
    IF currentIndex = 0 THEN SetAt(heap, currentIndex, node)
    ELSE LET parentIndex == (currentIndex - 1) \div 2
             parent == At(heap, parentIndex)
         IN IF node.key > parent.key
               \/ (node.key = parent.key /\ node.index > parent.index)
            THEN SetAt(heap, currentIndex, node)
            ELSE MinHeapSiftUp(SetAt(heap, currentIndex, parent), parentIndex, node)

MinHeapInsert(h, key, value) ==
    [h EXCEPT !.heap = MinHeapSiftUp(
                           Append(h.heap, [key |-> key, value |-> value,
                                           index |-> h.insertCounter]),
                           Len(h.heap),
                           [key |-> key, value |-> value, index |-> h.insertCounter]),
              !.insertCounter = h.insertCounter + 1]

\* Fault variant of MinHeapBefore: the insertion index is left out
MinHeapBeforeByKey(a, b) == a.key < b.key

\* node a precedes node b by (key, index)
MinHeapBefore(a, b) == a.key < b.key \/ (a.key = b.key /\ a.index < b.index)

\* bubbleDown: the smaller of the two children moves up while it precedes the
\* node being placed
RECURSIVE MinHeapBubbleDown(_, _, _)
MinHeapBubbleDown(heap, index, node) ==
    LET leftChildIndex == 2 * index + 1
        rightChildIndex == leftChildIndex + 1
        smallestIndex ==
            IF rightChildIndex < Len(heap)
               /\ MinHeapBefore(At(heap, rightChildIndex), At(heap, leftChildIndex))
            THEN rightChildIndex ELSE leftChildIndex
    IN IF leftChildIndex >= Len(heap) THEN SetAt(heap, index, node)
       ELSE IF MinHeapBefore(At(heap, smallestIndex), node)
       THEN MinHeapBubbleDown(SetAt(heap, index, At(heap, smallestIndex)),
                              smallestIndex, node)
       ELSE SetAt(heap, index, node)

\* extractMin: [value |-> null or the value of heap[0], h |-> the heap afterwards]
MinHeapExtractMin(h) ==
    IF Len(h.heap) = 0 THEN [value |-> Null, h |-> h]
    ELSE [value |-> Ref(At(h.heap, 0).value),
          h |-> IF Len(h.heap) > 1
                THEN [h EXCEPT !.heap = MinHeapBubbleDown(
                                            SubSeq(h.heap, 1, Len(h.heap) - 1), 0,
                                            At(h.heap, Len(h.heap) - 1))]
                ELSE [h EXCEPT !.heap = << >>]]

MinHeapSize(h) == Len(h.heap)

---------------------------------------------------------------------------
(***************************************************************************)
(* PairingHeap: a tree of PairingHeapNode objects linked by child and      *)
(* sibling.  The objects live in the sequence `nodes`; a reference is the  *)
(* position of the object in it, and 0 is the null reference.              *)
(***************************************************************************)
NewPairingHeap == [kind |-> "PairingHeap", nodes |-> << >>, root |-> 0, heapSize |-> 0]

\* merge(a, b): the root with the larger key becomes the first child of the
\* other; on equal keys b becomes the child of a
PairingMerge(nodes, a, b) ==
    IF a = 0 THEN [nodes |-> nodes, root |-> b]
    ELSE IF b = 0 THEN [nodes |-> nodes, root |-> a]
    ELSE IF nodes[a].key <= nodes[b].key
    THEN [nodes |-> [nodes EXCEPT ![b].sibling = nodes[a].child, ![a].child = b],
          root |-> a]
    ELSE [nodes |-> [nodes EXCEPT ![a].sibling = nodes[b].child, ![b].child = a],
          root |-> b]

PairingInsertMerged(h, m) ==
    [h EXCEPT !.nodes = m.nodes, !.root = m.root, !.heapSize = h.heapSize + 1]

PairingInsert(h, key, value) ==
    PairingInsertMerged(h,
        PairingMerge(Append(h.nodes, [key |-> key, value |-> value,
                                      child |-> 0, sibling |-> 0]),
                     h.root, Len(h.nodes) + 1))

\* Step 1 of combineSiblings: the siblings from `current` on, each cut from
\* its successor
RECURSIVE PairingCollect(_, _, _)
PairingCollect(nodes, current, siblingArray) ==
    IF current = 0 THEN [nodes |-> nodes, siblingArray |-> siblingArray]
    ELSE PairingCollect([nodes EXCEPT ![current].sibling = 0],
                        nodes[current].sibling, Append(siblingArray, current))

\* siblingArray[i], undefined beyond the end of the array (merge takes
\* undefined for null)
PairingSlot(siblingArray, i) == IF i + 1 > Len(siblingArray) THEN 0 ELSE At(siblingArray, i)

PairingMerged(m, siblingArray, i) ==
    [nodes |-> m.nodes, siblingArray |-> SetAt(siblingArray, i, m.root)]

\* Step 2: neighbours are merged in pairs, left to right; i is where the loop stops
RECURSIVE PairingPairUp(_, _)
PairingPairUp(acc, i) ==
    IF i + 1 < Len(acc.siblingArray)
    THEN PairingPairUp(
             PairingMerged(PairingMerge(acc.nodes, At(acc.siblingArray, i),
                                        At(acc.siblingArray, i + 1)),
                           acc.siblingArray, i),
             i + 2)
    ELSE [nodes |-> acc.nodes, siblingArray |-> acc.siblingArray, i |-> i]

\* Step 3: the merged pairs are merged right to left into siblingArray[0]
RECURSIVE PairingFold(_, _)
PairingFold(acc, j) ==
    IF j >= 0
    THEN PairingFold(
             PairingMerged(PairingMerge(acc.nodes, At(acc.siblingArray, j),
                                        PairingSlot(acc.siblingArray, j + 2)),
                           acc.siblingArray, j),
             j - 2)
    ELSE [nodes |-> acc.nodes, root |-> At(acc.siblingArray, 0)]

PairingFoldFrom(paired) ==
    PairingFold(paired, IF paired.i - 2 < 0 THEN 0 ELSE paired.i - 2)

\* combineSiblings: two-pass pairing of a list of siblings into one root
PairingCombineSiblings(nodes, firstSibling) ==
    IF firstSibling = 0 \/ nodes[firstSibling].sibling = 0
    THEN [nodes |-> nodes, root |-> firstSibling]
    ELSE PairingFoldFrom(PairingPairUp(PairingCollect(nodes, firstSibling, << >>), 0))

PairingExtracted(h, c) ==
    [h EXCEPT !.nodes = c.nodes, !.root = c.root, !.heapSize = h.heapSize - 1]

PairingExtractMin(h) ==
    IF h.root = 0 THEN [value |-> Null, h |-> h]
    ELSE [value |-> Ref(h.nodes[h.root].value),
          h |-> PairingExtracted(h,
                    PairingCombineSiblings([h.nodes EXCEPT ![h.root].child = 0],
                                           h.nodes[h.root].child))]

PairingSize(h) == h.heapSize

\* Fault variant of PairingClear: the root stays
PairingClearSize(h) == [h EXCEPT !.heapSize = 0]

PairingClear(h) == [h EXCEPT !.root = 0, !.heapSize = 0]

---------------------------------------------------------------------------
(***************************************************************************)
(* FibonacciHeap: heap-ordered trees of FibonacciNode objects; the roots   *)
(* and the children of a node form circular doubly-linked lists (next /    *)
(* prev).  The objects live in the sequence `nodes`; a reference is the    *)
(* position of the object in it, and 0 is the null reference.  `threw` is  *)
(* set in place of the TypeError of a read through an undefined slot of    *)
(* the degree table.                                                       *)
(***************************************************************************)
NewFibonacciHeap ==
    [kind |-> "FibonacciHeap", nodes |-> << >>, minNode |-> 0, totalNodes |-> 0,
     threw |-> FALSE]

\* node.prev = at; node.next = at.next; at.next.prev = node; at.next = node
FibSpliceAfter(nodes, node, at) ==
    LET n1 == [nodes EXCEPT ![node].prev = at, ![node].next = nodes[at].next]
        n2 == [n1 EXCEPT ![n1[at].next].prev = node]
    IN [n2 EXCEPT ![at].next = node]

\* x.prev.next = x.next; x.next.prev = x.prev
FibUnlink(nodes, x) ==
    LET n1 == [nodes EXCEPT ![nodes[x].prev].next = nodes[x].next]
    IN [n1 EXCEPT ![n1[x].next].prev = n1[x].prev]

FibInsertNode(h, nodes, node) ==
    IF h.minNode = 0
    THEN [h EXCEPT !.nodes = nodes, !.minNode = node, !.totalNodes = h.totalNodes + 1]
    ELSE [h EXCEPT !.nodes = FibSpliceAfter(nodes, node, h.minNode),
                   !.minNode = IF nodes[node].key < nodes[h.minNode].key
                               THEN node ELSE h.minNode,
                   !.totalNodes = h.totalNodes + 1]

FibonacciInsert(h, key, value) ==
    FibInsertNode(h,
        Append(h.nodes, [key |-> key, value |-> value, degree |-> 0, parent |-> 0,
                         child |-> 0, next |-> Len(h.nodes) + 1,
                         prev |-> Len(h.nodes) + 1, mark |-> FALSE]),
        Len(h.nodes) + 1)

\* do { list.push(cur); cur = cur.next } while (cur !== start)
RECURSIVE FibRing(_, _, _, _)
FibRing(nodes, start, cur, list) ==
    IF nodes[cur].next = start THEN Append(list, cur)
    ELSE FibRing(nodes, start, nodes[cur].next, Append(list, cur))

\* The children of oldMin are cut from their list and spliced into the root
\* list right after oldMin
RECURSIVE FibPromote(_, _, _, _)
FibPromote(nodes, children, i, oldMin) ==
    IF i > Len(children) THEN nodes
    ELSE FibPromote(
             FibSpliceAfter(
                 FibUnlink([nodes EXCEPT ![children[i]].parent = 0], children[i]),
                 children[i], oldMin),
             children, i + 1, oldMin)

\* Fault variant of FibLink: the degree of parent is left as it was
FibLinkUncounted(nodes, child, parent) ==
    LET n1 == [FibUnlink(nodes, child) EXCEPT ![child].parent = parent,
                                              ![child].mark = FALSE]
    IN IF n1[parent].child = 0
       THEN [n1 EXCEPT ![parent].child = child,
                       ![child].prev = child, ![child].next = child]
       ELSE FibSpliceAfter(n1, child, n1[parent].child)

\* link(child, parent): child leaves the root list and joins parent's children
FibLink(nodes, child, parent) ==
    LET n1 == [FibUnlink(nodes, child) EXCEPT ![child].parent = parent,
                                              ![child].mark = FALSE]
        n2 == IF n1[parent].child = 0
              THEN [n1 EXCEPT ![parent].child = child,
                              ![child].prev = child, ![child].next = child]
              ELSE FibSpliceAfter(n1, child, n1[parent].child)
    IN [n2 EXCEPT ![parent].degree = n2[parent].degree + 1]

RECURSIVE FloorLog2(_)
FloorLog2(n) == IF n < 2 THEN 0 ELSE 1 + FloorLog2(n \div 2)

\* The while loop of consolidate for one root x: roots of equal degree are
\* linked, the smaller key on top (x stays on top of a root of equal key)
RECURSIVE FibCarry(_, _, _)
FibCarry(acc, x, degree) ==
    IF degree + 1 > Len(acc.degreeTable) THEN [acc EXCEPT !.threw = TRUE]
    ELSE IF At(acc.degreeTable, degree) = 0
    THEN [acc EXCEPT !.degreeTable = SetAt(acc.degreeTable, degree, x)]
    ELSE LET y == At(acc.degreeTable, degree)
             top == IF acc.nodes[y].key < acc.nodes[x].key THEN y ELSE x
             below == IF acc.nodes[y].key < acc.nodes[x].key THEN x ELSE y
         IN FibCarry([acc EXCEPT !.nodes = FibLink(acc.nodes, below, top),
                                 !.degreeTable = SetAt(acc.degreeTable, degree, 0)],
                     top, degree + 1)

RECURSIVE FibCarryAll(_, _, _)
FibCarryAll(acc, rootList, i) ==
    IF i > Len(rootList) \/ acc.threw THEN acc
    ELSE FibCarryAll(FibCarry(acc, rootList[i], acc.nodes[rootList[i]].degree),
                     rootList, i + 1)

\* The last loop of consolidate: the root list is rebuilt from the degree
\* table and the minimum found (a later root replaces it on a smaller key only)
RECURSIVE FibRebuild(_, _, _, _)
FibRebuild(nodes, degreeTable, i, minNode) ==
    IF i > Len(degreeTable) THEN [nodes |-> nodes, minNode |-> minNode]
    ELSE IF degreeTable[i] = 0 THEN FibRebuild(nodes, degreeTable, i + 1, minNode)
    ELSE IF minNode = 0
    THEN FibRebuild([nodes EXCEPT ![degreeTable[i]].prev = degreeTable[i],
                                  ![degreeTable[i]].next = degreeTable[i]],
                    degreeTable, i + 1, degreeTable[i])
    ELSE FibRebuild(FibSpliceAfter(nodes, degreeTable[i], minNode), degreeTable, i + 1,
                    IF nodes[degreeTable[i]].key < nodes[minNode].key
                    THEN degreeTable[i] ELSE minNode)

FibRebuilt(h, acc, rebuilt) ==
    [h EXCEPT !.nodes = rebuilt.nodes, !.minNode = rebuilt.minNode, !.threw = acc.threw]

FibConsolidated(h, acc) ==
    IF acc.threw THEN [h EXCEPT !.nodes = acc.nodes, !.threw = TRUE]
    ELSE FibRebuilt(h, acc, FibRebuild(acc.nodes, acc.degreeTable, 1, 0))

\* consolidate, minNode being a root of the list to consolidate
FibConsolidate(h) ==
    FibConsolidated(h,
        FibCarryAll([nodes |-> h.nodes,
                     degreeTable |-> Fill(FloorLog2(h.totalNodes) + 2, 0),
                     threw |-> FALSE],
                    FibRing(h.nodes, h.minNode, h.minNode, << >>), 1))

\* The end of extractMin once the children of oldMin are roots: oldMin has left
\* the root list and the rest is consolidated
FibRemoveMin(h, nodes, oldMin) ==
    IF nodes[oldMin].next = oldMin
    THEN [h EXCEPT !.nodes = nodes, !.minNode = 0]
    ELSE FibConsolidate([h EXCEPT !.nodes = nodes, !.minNode = nodes[oldMin].next])

\* Fault variant of FibCounted: totalNodes is left as it was
FibUncounted(h) == h

\* this.totalNodes -= 1, which a TypeError in consolidate does not reach
FibCounted(h) == IF h.threw THEN h ELSE [h EXCEPT !.totalNodes = h.totalNodes - 1]

FibonacciExtractMin(h) ==
    IF h.minNode = 0 THEN [value |-> Null, h |-> h]
    ELSE [value |-> Ref(h.nodes[h.minNode].value),
          h |-> FibCounted(
                    FibRemoveMin(h,
                        FibUnlink(
                            IF h.nodes[h.minNode].child = 0 THEN h.nodes
                            ELSE FibPromote(h.nodes,
                                     FibRing(h.nodes, h.nodes[h.minNode].child,
                                             h.nodes[h.minNode].child, << >>),
                                     1, h.minNode),
                            h.minNode),
                        h.minNode))]

FibonacciSize(h) == h.totalNodes

FibonacciPeekMinKey(h) == IF h.minNode = 0 THEN Infinity ELSE h.nodes[h.minNode].key

FibonacciClear(h) == [h EXCEPT !.minNode = 0, !.totalNodes = 0]

---------------------------------------------------------------------------
\* The heap classes a host may pass as the `heap` option
HeapKinds == {"MinHeap", "FourAryHeap", "FibonacciHeap", "PairingHeap"}

\* new this.heapConstructor()
NewHeap(kind) ==
    CASE kind = "MinHeap" -> NewMinHeap
      [] kind = "FourAryHeap" -> NewFourAryHeap
      [] kind = "FibonacciHeap" -> NewFibonacciHeap
      [] OTHER -> NewPairingHeap

\* The methods of the Heap interface, dispatched on the class of the object
HeapInsert(h, key, value) ==
    CASE h.kind = "MinHeap" -> MinHeapInsert(h, key, value)
      [] h.kind = "FourAryHeap" -> FourAryInsert(h, key, value)
      [] h.kind = "FibonacciHeap" -> FibonacciInsert(h, key, value)
      [] OTHER -> PairingInsert(h, key, value)

HeapExtractMin(h) ==
    CASE h.kind = "MinHeap" -> MinHeapExtractMin(h)
      [] h.kind = "FourAryHeap" -> FourAryExtractMin(h)
      [] h.kind = "FibonacciHeap" -> FibonacciExtractMin(h)
      [] OTHER -> PairingExtractMin(h)

HeapSize(h) ==
    CASE h.kind = "MinHeap" -> MinHeapSize(h)
      [] h.kind = "FourAryHeap" -> FourArySize(h)
      [] h.kind = "FibonacciHeap" -> FibonacciSize(h)
      [] OTHER -> PairingSize(h)

\* The optional methods: peekMinKey is a method of FourAryHeap and
\* FibonacciHeap, clear of FourAryHeap, FibonacciHeap and PairingHeap
HasPeekMinKey(h) == h.kind \in {"FourAryHeap", "FibonacciHeap"}
HeapPeekMinKey(h) ==
    IF h.kind = "FourAryHeap" THEN FourAryPeekMinKey(h) ELSE FibonacciPeekMinKey(h)

HasClear(h) == h.kind \in {"FourAryHeap", "FibonacciHeap", "PairingHeap"}
HeapClear(h) ==
    CASE h.kind = "FourAryHeap" -> FourAryClear(h)
      [] h.kind = "FibonacciHeap" -> FibonacciClear(h)
      [] OTHER -> PairingClear(h)

---------------------------------------------------------------------------
\* Fault variant of GetOrCreateIndex: an unknown coordinate is given the index
\* of the last interned node instead of a node of its own
GetOrCreateIndexSnapping(coord, g) ==
    IF Indexed(g.map, coord)
    THEN [g EXCEPT !.index = g.map[coord[1]][coord[2]]]
    ELSE IF g.coords # << >>
    THEN [g EXCEPT !.index = Len(g.coords) - 1]
    ELSE [g EXCEPT !.index = 0,
                   !.map = MapSet(g.map, coord[1], MapSet(EmptyMap, coord[2], 0)),
                   !.coords = <<coord>>,
                   !.adj = << Ref(<< >>) >>]

\* Fault variant of GetOrCreateIndex: the adjacency slot of the new node is
\* not allocated
GetOrCreateIndexNoSlot(coord, g) ==
    IF Indexed(g.map, coord)
    THEN [g EXCEPT !.index = g.map[coord[1]][coord[2]]]
    ELSE LET latMap == IF MapHas(g.map, coord[1]) THEN g.map[coord[1]] ELSE EmptyMap
             index == Len(g.coords)
             extend == ~g.offsets.null /\ index = g.nodeCount
         IN [index |-> index,
             map |-> MapSet(g.map, coord[1], MapSet(latMap, coord[2], index)),
             coords |-> Append(g.coords, coord),
             adj |-> g.adj,
             offsets |-> IF extend
                         THEN Ref(Append(g.offsets.val, At(g.offsets.val, g.nodeCount)))
                         ELSE g.offsets,
             nodeCount |-> IF extend THEN g.nodeCount + 1 ELSE g.nodeCount]

\* Fault variant of GetOrCreateIndex: the slot of the new offsets array for the
\* new node is left at the 0 the array was allocated with
GetOrCreateIndexZeroOffset(coord, g) ==
    IF Indexed(g.map, coord)
    THEN [g EXCEPT !.index = g.map[coord[1]][coord[2]]]
    ELSE LET latMap == IF MapHas(g.map, coord[1]) THEN g.map[coord[1]] ELSE EmptyMap
             index == Len(g.coords)
             adj == IF index + 1 <= Len(g.adj)
                    THEN SetAt(g.adj, index, Ref(<< >>))
                    ELSE g.adj \o Fill(index - Len(g.adj), Null) \o << Ref(<< >>) >>
             extend == ~g.offsets.null /\ index = g.nodeCount
         IN [index |-> index,
             map |-> MapSet(g.map, coord[1], MapSet(latMap, coord[2], index)),
             coords |-> Append(g.coords, coord),
             adj |-> adj,
             offsets |-> IF extend THEN Ref(Append(g.offsets.val, 0)) ELSE g.offsets,
             nodeCount |-> IF extend THEN g.nodeCount + 1 ELSE g.nodeCount]

\* getOrCreateIndex: the node index of a query endpoint; an unknown coordinate
\* becomes a new node with an empty adjacency slot and an empty CSR row
GetOrCreateIndex(coord, g) ==
    IF Indexed(g.map, coord)
    THEN [g EXCEPT !.index = g.map[coord[1]][coord[2]]]
    ELSE LET latMap == IF MapHas(g.map, coord[1]) THEN g.map[coord[1]] ELSE EmptyMap
             index == Len(g.coords)
             adj == IF index + 1 <= Len(g.adj)
                    THEN SetAt(g.adj, index, Ref(<< >>))
                    ELSE g.adj \o Fill(index - Len(g.adj), Null) \o << Ref(<< >>) >>
             extend == ~g.offsets.null /\ index = g.nodeCount
         IN [index |-> index,
             map |-> MapSet(g.map, coord[1], MapSet(latMap, coord[2], index)),
             coords |-> Append(g.coords, coord),
             adj |-> adj,
             offsets |-> IF extend
                         THEN Ref(Append(g.offsets.val, At(g.offsets.val, g.nodeCount)))
                         ELSE g.offsets,
             nodeCount |-> IF extend THEN g.nodeCount + 1 ELSE g.nodeCount]

\* Fault variant of EnsureScratch: arrays that are big enough are not filled
EnsureScratchUnfilled(size, capacity, arr, init) ==
    IF capacity >= size THEN arr ELSE Fill(size, init)

\* ensureScratch followed by the fills of getRoute: arrays of at least `size`
\* slots whose first `size` slots hold the initial values
EnsureScratch(size, capacity, arr, init) ==
    IF capacity >= size THEN FillPrefix(arr, init, size)
    ELSE Fill(size, init)

\* Fault variant of RelaxEdge: a better total lowers the best path cost, the
\* meeting node is set by the first total only
RelaxEdgeFirstMeeting(st, current, nbNode, tentativeG, improves) ==
    [st EXCEPT !.g = SetAt(st.g, nbNode, tentativeG),
               !.ptr = SetAt(st.ptr, nbNode, current),
               !.bestPathCost = IF improves THEN Plus(tentativeG, At(st.other, nbNode)) ELSE @,
               !.meetingNode = IF improves /\ st.meetingNode < 0 THEN nbNode ELSE @,
               !.open = HeapInsert(st.open, tentativeG, nbNode)]

\* Fault variant of RelaxEdge: the pointer of the neighbour is not written
RelaxEdgeUnlinked(st, current, nbNode, tentativeG, improves) ==
    [st EXCEPT !.g = SetAt(st.g, nbNode, tentativeG),
               !.bestPathCost = IF improves THEN Plus(tentativeG, At(st.other, nbNode)) ELSE @,
               !.meetingNode = IF improves THEN nbNode ELSE @,
               !.open = HeapInsert(st.open, tentativeG, nbNode)]

\* The body of `if (tentativeG < g[nbNode])` on one side of the search
\* (forward: g = gF, pointers prevF; reverse: g = gR, pointers nextR)
RelaxEdge(st, current, nbNode, tentativeG, improves) ==
    [st EXCEPT !.g = SetAt(st.g, nbNode, tentativeG),
               !.ptr = SetAt(st.ptr, nbNode, current),
               !.bestPathCost = IF improves THEN Plus(tentativeG, At(st.other, nbNode)) ELSE @,
               !.meetingNode = IF improves THEN nbNode ELSE @,
               !.open = HeapInsert(st.open, tentativeG, nbNode)]

\* Fault variant of Relax: a neighbour is relaxed also when the tentative g
\* equals its g
RECURSIVE RelaxOnEqual(_, _, _, _)
RelaxOnEqual(st, current, nbrs, i) ==
    IF i > Len(nbrs) THEN st
    ELSE RelaxOnEqual(
             IF Plus(At(st.g, current), nbrs[i].distance) <= At(st.g, nbrs[i].node)
             THEN RelaxEdge(st, current, nbrs[i].node,
                            Plus(At(st.g, current), nbrs[i].distance),
                            /\ At(st.other, nbrs[i].node) # Infinity
                            /\ Plus(Plus(At(st.g, current), nbrs[i].distance),
                                    At(st.other, nbrs[i].node)) < st.bestPathCost)
             ELSE st,
             current, nbrs, i + 1)

\* Relaxation of the neighbours nbrs[i..] of `current`
RECURSIVE Relax(_, _, _, _)
Relax(st, current, nbrs, i) ==
    IF i > Len(nbrs) THEN st
    ELSE Relax(IF Plus(At(st.g, current), nbrs[i].distance) < At(st.g, nbrs[i].node)
               THEN RelaxEdge(st, current, nbrs[i].node,
                              Plus(At(st.g, current), nbrs[i].distance),
                              /\ At(st.other, nbrs[i].node) # Infinity
                              /\ Plus(Plus(At(st.g, current), nbrs[i].distance),
                                      At(st.other, nbrs[i].node)) < st.bestPathCost)
               ELSE st,
               current, nbrs, i + 1)

\* Fault variant of Neighbors: the adjacency-list slot of the node is read
\* when it holds entries, the CSR row otherwise
NeighborsOverlayFirst(csr, adj, current) ==
    IF AdjNeighbors(adj, current) # << >>
    THEN AdjNeighbors(adj, current)
    ELSE IF ~csr.offsets.null /\ current < csr.nodeCount
    THEN CsrSlice(csr.offsets.val, csr.indices.val, csr.distances.val, current)
    ELSE << >>

\* Fault variant of Neighbors: the row after the node's own row is read
NeighborsOfNextRow(csr, adj, current) ==
    IF ~csr.offsets.null /\ current + 1 < csr.nodeCount
    THEN CsrSlice(csr.offsets.val, csr.indices.val, csr.distances.val, current + 1)
    ELSE << >>

\* The neighbours of a node: its CSR row when the CSR covers it, else its
\* adjacency-list slot
Neighbors(csr, adj, current) ==
    IF ~csr.offsets.null /\ current < csr.nodeCount
    THEN CsrSlice(csr.offsets.val, csr.indices.val, csr.distances.val, current)
    ELSE AdjNeighbors(adj, current)

\* Fault variant of Visit: the visited flag of the extracted node is not set
VisitUnmarked(side, current, h, meets) ==
    [side EXCEPT !.open = h,
                 !.lastExtractedG = At(side.g, current),
                 !.bestPathCost = IF meets
                                  THEN Plus(At(side.g, current), At(side.other, current))
                                  ELSE @,
                 !.meetingNode = IF meets THEN current ELSE @]

\* The extracted node is finalised on this side; a meeting is recorded when the
\* other side has finalised it and the total improves the best path
Visit(side, current, h, meets) ==
    [side EXCEPT !.open = h,
                 !.lastExtractedG = At(side.g, current),
                 !.vis = SetAt(side.vis, current, 1),
                 !.bestPathCost = IF meets
                                  THEN Plus(At(side.g, current), At(side.other, current))
                                  ELSE @,
                 !.meetingNode = IF meets THEN current ELSE @]

ExpandExtracted(side, current, h, csr, adj) ==
    IF At(side.vis, current) # 0 THEN [side EXCEPT !.open = h]
    ELSE Relax(Visit(side, current, h,
                     /\ At(side.otherVis, current) # 0
                     /\ Plus(At(side.g, current), At(side.other, current))
                          < side.bestPathCost),
               current, Neighbors(csr, adj, current), 1)

\* const current = open.extractMin()!
ExpandFrom(side, ex, csr, adj) == ExpandExtracted(side, ex.value.val, ex.h, csr, adj)

\* Fault variant of ExpandSide: the minimum is read and left in the queue
ExpandSideKeeping(side, csr, adj) ==
    ExpandFrom(side, [value |-> HeapExtractMin(side.open).value, h |-> side.open],
               csr, adj)

\* One expansion: extract the minimum of one side, skip it when stale, record a
\* meeting when the other side has finalised it, relax its neighbours.
\* `side` is the view of the search from the expanding direction.
ExpandSide(side, csr, adj) ==
    ExpandFrom(side, HeapExtractMin(side.open), csr, adj)

ForwardSide(st) ==
    [g |-> st.gF, other |-> st.gR, ptr |-> st.prevF,
     vis |-> st.visF, otherVis |-> st.visR, open |-> st.openF,
     bestPathCost |-> st.bestPathCost, meetingNode |-> st.meetingNode,
     lastExtractedG |-> st.lastExtractedGForward]

ReverseSide(st) ==
    [g |-> st.gR, other |-> st.gF, ptr |-> st.nextR,
     vis |-> st.visR, otherVis |-> st.visF, open |-> st.openR,
     bestPathCost |-> st.bestPathCost, meetingNode |-> st.meetingNode,
     lastExtractedG |-> st.lastExtractedGReverse]

AfterForward(st, r) ==
    [st EXCEPT !.gF = r.g, !.prevF = r.ptr, !.visF = r.vis, !.openF = r.open,
               !.bestPathCost = r.bestPathCost, !.meetingNode = r.meetingNode,
               !.lastExtractedGForward = r.lastExtractedG]

\* Fault variant of AfterReverse: a best path and meeting node found by the
\* reverse side are dropped
AfterReverseKeepingBest(st, r) ==
    [st EXCEPT !.gR = r.g, !.nextR = r.ptr, !.visR = r.vis, !.openR = r.open,
               !.lastExtractedGReverse = r.lastExtractedG]

AfterReverse(st, r) ==
    [st EXCEPT !.gR = r.g, !.nextR = r.ptr, !.visR = r.vis, !.openR = r.open,
               !.bestPathCost = r.bestPathCost, !.meetingNode = r.meetingNode,
               !.lastExtractedGReverse = r.lastExtractedG]

\* Fault variant of ExpandsForward: forward expands only when its queue is
\* smaller than the reverse queue
ExpandsForwardWhenSmaller(st) == HeapSize(st.openF) < HeapSize(st.openR)

\* Forward expands when its queue is no larger than the reverse queue
ExpandsForward(st) == HeapSize(st.openF) <= HeapSize(st.openR)

\* Fault variant of ShouldStop: the loop ends at the first meeting, whatever the
\* two queues still promise
StopsAtFirstMeeting(st) == st.meetingNode >= 0

\* Fault variant of ShouldStop: a queue without peekMinKey ends the loop at the
\* first meeting, the last finalised g values being ignored
ShouldStopUnjudged(st) ==
    /\ st.meetingNode >= 0
    /\ IF HasPeekMinKey(st.openF) /\ HasPeekMinKey(st.openR)
       THEN Plus(HeapPeekMinKey(st.openF), HeapPeekMinKey(st.openR)) >= st.bestPathCost
       ELSE TRUE

\* The termination check: a meeting exists and the two minimum keys together
\* cannot improve on the best path; heaps without peekMinKey are judged by the
\* g of the last node finalised on each side
ShouldStop(st) ==
    /\ st.meetingNode >= 0
    /\ IF HasPeekMinKey(st.openF) /\ HasPeekMinKey(st.openR)
       THEN Plus(HeapPeekMinKey(st.openF), HeapPeekMinKey(st.openR)) >= st.bestPathCost
       ELSE Plus(st.lastExtractedGForward, st.lastExtractedGReverse) >= st.bestPathCost

\* The main loop of getRoute over the search state
\* [gF, gR, prevF, nextR, visF, visR, openF, openR, bestPathCost, meetingNode,
\*  lastExtractedGForward, lastExtractedGReverse]
RECURSIVE SearchLoop(_, _, _)
SearchLoop(st, csr, adj) ==
    IF ~(HeapSize(st.openF) > 0 /\ HeapSize(st.openR) > 0) THEN st
    ELSE IF ShouldStop(st) THEN st
    ELSE IF ExpandsForward(st)
    THEN SearchLoop(AfterForward(st, ExpandSide(ForwardSide(st), csr, adj)), csr, adj)
    ELSE SearchLoop(AfterReverse(st, ExpandSide(ReverseSide(st), csr, adj)), csr, adj)

\* Walk prevF back from the meeting node: the nodes pushed before the walk stops,
\* and the node it stops at (the start, or -1 when the chain breaks)
RECURSIVE WalkBack(_, _, _, _)
WalkBack(prevF, cur, startIndex, path) ==
    IF cur # startIndex /\ cur >= 0
    THEN WalkBack(prevF, At(prevF, cur), startIndex, Append(path, cur))
    ELSE [path |-> path, cur |-> cur]

\* Walk nextR forward from the meeting node to the end; ok is FALSE when the
\* chain breaks
RECURSIVE WalkForward(_, _, _, _)
WalkForward(nextR, cur, endIndex, path) ==
    IF cur = endIndex THEN [path |-> path, ok |-> TRUE]
    ELSE LET nxt == At(nextR, cur)
         IN IF nxt < 0 THEN [path |-> path, ok |-> FALSE]
            ELSE WalkForward(nextR, nxt, endIndex, Append(path, nxt))

\* Path reconstruction: the node indices start .. meeting .. end, or Null
ForwardPart(fwd) == IF fwd.ok THEN Ref(fwd.path) ELSE Null

\* Fault variant of BackPart: the forward walk appends the meeting node, which
\* the reversed prefix already ends with
BackPartRepeatingMeeting(st, back, startIndex, endIndex) ==
    IF back.cur # startIndex THEN Null
    ELSE ForwardPart(WalkForward(st.nextR, st.meetingNode, endIndex,
                                 Append(Reverse(Append(back.path, startIndex)),
                                        st.meetingNode)))

BackPart(st, back, startIndex, endIndex) ==
    IF back.cur # startIndex THEN Null
    ELSE ForwardPart(WalkForward(st.nextR, st.meetingNode, endIndex,
                                 Reverse(Append(back.path, startIndex))))

Reconstruct(st, startIndex, endIndex) ==
    IF st.meetingNode < 0 THEN Null
    ELSE BackPart(st, WalkBack(st.prevF, st.meetingNode, startIndex, << >>),
                  startIndex, endIndex)

---------------------------------------------------------------------------
\* The fields of the router that getRoute reads
ThisRouter ==
    [distanceMeasurement |-> distanceMeasurement, heapConstructor |-> heapConstructor,
     coordinateIndexMap |-> coordinateIndexMap, coordinates |-> coordinates,
     adjacencyList |-> adjacencyList, csrOffsets |-> csrOffsets,
     csrIndices |-> csrIndices, csrDistances |-> csrDistances,
     csrNodeCount |-> csrNodeCount,
     gScoreScratch |-> gScoreScratch, cameFromScratch |-> cameFromScratch,
     visitedScratch |-> visitedScratch, gScoreRevScratch |-> gScoreRevScratch,
     cameFromRevScratch |-> cameFromRevScratch, visitedRevScratch |-> visitedRevScratch,
     scratchCapacity |-> scratchCapacity,
     openForward |-> openForward, openReverse |-> openReverse]

\* The graph fields getOrCreateIndex reads and writes
GraphState(r) ==
    [index |-> -1, map |-> r.coordinateIndexMap, coords |-> r.coordinates,
     adj |-> r.adjacencyList, offsets |-> r.csrOffsets, nodeCount |-> r.csrNodeCount]

\* this.openForward ?? (this.openForward = new this.heapConstructor())
ReusedHeap(r, open) == IF open.null THEN NewHeap(r.heapConstructor) ELSE open.val

\* Both heaps of the instance have a clear method
CanReuse(r) ==
    HasClear(ReusedHeap(r, r.openForward)) /\ HasClear(ReusedHeap(r, r.openReverse))

\* Fault variant of SearchHeap: the heap of the instance is used as the last
\* search left it
SearchHeapUncleared(r, open) ==
    IF CanReuse(r) THEN ReusedHeap(r, open) ELSE NewHeap(r.heapConstructor)

\* The queue a search runs on: the instance's heap, cleared, or a new heap
\* when the class has no clear
SearchHeap(r, open) ==
    IF CanReuse(r) THEN HeapClear(ReusedHeap(r, open)) ELSE NewHeap(r.heapConstructor)

\* The search state after the fills and the two initial inserts
InitialSearch(r, startIndex, endIndex, nodeCount) ==
    [gF |-> SetAt(EnsureScratch(nodeCount, r.scratchCapacity, r.gScoreScratch, Infinity),
                  startIndex, 0),
     gR |-> SetAt(EnsureScratch(nodeCount, r.scratchCapacity, r.gScoreRevScratch, Infinity),
                  endIndex, 0),
     prevF |-> EnsureScratch(nodeCount, r.scratchCapacity, r.cameFromScratch, -1),
     nextR |-> EnsureScratch(nodeCount, r.scratchCapacity, r.cameFromRevScratch, -1),
     visF |-> EnsureScratch(nodeCount, r.scratchCapacity, r.visitedScratch, 0),
     visR |-> EnsureScratch(nodeCount, r.scratchCapacity, r.visitedRevScratch, 0),
     openF |-> HeapInsert(SearchHeap(r, r.openForward), 0, startIndex),
     openR |-> HeapInsert(SearchHeap(r, r.openReverse), 0, endIndex),
     bestPathCost |-> Infinity,
     meetingNode |-> -1,
     lastExtractedGForward |-> 0,
     lastExtractedGReverse |-> 0]

\* The coordinates of a reconstructed path
PathCoordinates(path, coords) ==
    IF path.null THEN Null
    ELSE Ref([i \in 1..Len(path.val) |-> At(coords, path.val[i])])

\* What a search leaves: the graph and scratch fields, the heaps of the
\* instance (the heaps searched on when they are reused) and the route
Searched(r, startIndex, ge, st) ==
    [searched |-> TRUE, graph |-> ge, st |-> st,
     capacity |-> IF r.scratchCapacity >= Len(ge.coords)
                  THEN r.scratchCapacity ELSE Len(ge.coords),
     openForward |-> Ref(IF CanReuse(r) THEN st.openF ELSE ReusedHeap(r, r.openForward)),
     openReverse |-> Ref(IF CanReuse(r) THEN st.openR ELSE ReusedHeap(r, r.openReverse)),
     meetingNode |-> st.meetingNode,
     route |-> PathCoordinates(Reconstruct(st, startIndex, ge.index), ge.coords)]

\* Fault variant of RouteIndexed: the search runs also when both endpoints
\* are the same node
RouteIndexedSearching(r, startIndex, ge) ==
    Searched(r, startIndex, ge,
             SearchLoop(InitialSearch(r, startIndex, ge.index, Len(ge.coords)),
                        [offsets |-> ge.offsets, indices |-> r.csrIndices,
                         distances |-> r.csrDistances, nodeCount |-> ge.nodeCount],
                        ge.adj))

RouteIndexed(r, startIndex, ge) ==
    IF startIndex = ge.index
    THEN [searched |-> FALSE, graph |-> ge, meetingNode |-> -1, route |-> Null]
    ELSE Searched(r, startIndex, ge,
                  SearchLoop(InitialSearch(r, startIndex, ge.index, Len(ge.coords)),
                             [offsets |-> ge.offsets, indices |-> r.csrIndices,
                              distances |-> r.csrDistances, nodeCount |-> ge.nodeCount],
                             ge.adj))

RouteFrom(r, gs, end) == RouteIndexed(r, gs.index, GetOrCreateIndex(end, gs))

\* getRoute(start, end) on a built router r: the graph and scratch fields
\* afterwards, and the route returned
RouteOn(r, start, end) == RouteFrom(r, GetOrCreateIndex(start, GraphState(r)), end)

\* getRoute(start, end) on this router, once built
GetRouteOutcome(start, end) == RouteOn(ThisRouter, start, end)

Commit(start, end, o) ==
    /\ coordinateIndexMap' = o.graph.map
    /\ coordinates' = o.graph.coords
    /\ adjacencyList' = o.graph.adj
    /\ csrOffsets' = o.graph.offsets
    /\ csrNodeCount' = o.graph.nodeCount
    /\ UNCHANGED <<network, fixedVars, csrIndices, csrDistances>>
    /\ ret' = [op |-> "getRoute", threw |-> FALSE, start |-> start, end |-> end,
               searched |-> o.searched, meetingNode |-> o.meetingNode,
               route |-> o.route]
    /\ IF o.searched
       THEN /\ gScoreScratch' = o.st.gF
            /\ gScoreRevScratch' = o.st.gR
            /\ cameFromScratch' = o.st.prevF
            /\ cameFromRevScratch' = o.st.nextR
            /\ visitedScratch' = o.st.visF
            /\ visitedRevScratch' = o.st.visR
            /\ scratchCapacity' = o.capacity
            /\ openForward' = o.openForward
            /\ openReverse' = o.openReverse
       ELSE UNCHANGED scratchVars

\* Fault variant of GetRoute: the guard on a router never built is missing
GetRouteUnguarded(start, end) == Commit(start, end, GetRouteOutcome(start, end))

GetRoute(start, end) ==
    IF network.null
    THEN /\ ret' = [op |-> "getRoute", threw |-> TRUE, error |-> NotBuiltError,
                    start |-> start, end |-> end]
         /\ UNCHANGED <<graphVars, fixedVars, scratchVars>>
    ELSE Commit(start, end, GetRouteOutcome(start, end))

---------------------------------------------------------------------------
\* The inputs of the host: LineStrings of up to n coordinates over the
\* coordinates cs (a LineString of fewer than 2 coordinates has no segment),
\* and networks of at most one such feature
Lines(cs, n) == UNION {[1..k -> cs] : k \in 0..n}
Networks(cs, n) == {<< >>} \cup {<<l>> : l \in Lines(cs, n)}

\* LineStrings of at least one segment that visit no coordinate twice
Simple(l) == Len(l) >= 2 /\ \A i, j \in 1..Len(l) : i # j => l[i] # l[j]
SimpleLines(cs, n) == {l \in Lines(cs, n) : Simple(l)}

\* Spec: the whole life of a router over three coordinates.  The host builds
\* once, from the empty network or one LineString over BuildCoords, expands
\* one LineString at a time while the merged network has fewer than
\* MaxFeatures features (the first feature of a network built empty lies over
\* BuildCoords too), and queries any pair of coordinates at any time, also
\* before the build.  <<0, 0>> is off the network until an expansion adds it.
BuildCoords == {<<0, 1>>, <<1, 0>>}
LifecycleCoords == BuildCoords \cup {<<0, 0>>}
LifecycleDistanceFns == {"manhattan", "squared"}
FirstFeatures == SimpleLines(BuildCoords, MaxLineLen)
LaterFeatures == SimpleLines(LifecycleCoords, MaxExpandLineLen)
BuildNetworks == {<< >>} \cup {<<l>> : l \in FirstFeatures}

BuildCall ==
    /\ network.null
    /\ \E net \in BuildNetworks : BuildRouteGraph(net)

ExpandCall ==
    \E l \in LaterFeatures :
        /\ IF network.null THEN TRUE
           ELSE /\ Len(network.val) < MaxFeatures
                /\ Len(network.val) = 0 => l \in FirstFeatures
        /\ ExpandRouteGraph(<<l>>)

RouteCall == \E start \in LifecycleCoords, end \in LifecycleCoords : GetRoute(start, end)

Next == BuildCall \/ ExpandCall \/ RouteCall

LifecycleInit == Constructor(LifecycleDistanceFns, {DefaultHeap})

Spec == LifecycleInit /\ [][Next]_vars

\* SpecSearch: one search on every network of a single LineString of up to
\* MaxSearchLineLen coordinates over the four coordinates (every trail of up
\* to four segments, with repeated coordinates, parallel segments and cycles)
\* and on every network of two LineStrings of up to MaxLineLen coordinates
\* (two components).
SearchNetworks ==
    Networks(Coords, MaxSearchLineLen)
    \cup {<<l1, l2>> : l1 \in Lines(Coords, MaxLineLen), l2 \in Lines(Coords, MaxLineLen)}

SearchBuild ==
    /\ network.null
    /\ \E net \in SearchNetworks : BuildRouteGraph(net)

SearchRoute ==
    /\ ret.op = "buildRouteGraph"
    /\ \E start \in Coords, end \in Coords : GetRoute(start, end)

NextSearch == SearchBuild \/ SearchRoute

SpecSearch == Init /\ [][NextSearch]_vars

\* LineStrings of exactly n coordinates without two equal consecutive
\* coordinates: walks of n - 1 segments, which may pass a coordinate or a
\* segment again
Walks(cs, n) == {l \in [1..n -> cs] : \A i \in 1..(n - 1) : l[i] # l[i + 1]}

\* SpecQueues: one search, by a router constructed with any of the four heap
\* classes, on every network of a single LineString that walks
\* MaxQueueLineLen - 1 segments over the four coordinates (every connected
\* graph of up to that many edges, parallel edges included).
QueueNetworks == {<<l>> : l \in Walks(Coords, MaxQueueLineLen)}

QueueBuild ==
    /\ network.null
    /\ \E net \in QueueNetworks : BuildRouteGraph(net)

QueueRoute ==
    /\ ret.op = "buildRouteGraph"
    /\ \E start \in Coords, end \in Coords : GetRoute(start, end)

NextQueues == QueueBuild \/ QueueRoute

QueuesInit == Constructor(DistanceFns, HeapKinds)

SpecQueues == QueuesInit /\ [][NextQueues]_vars

\* SpecRebuild: a router that is built again and again, at any time, from
\* the empty network or one LineString of up to MaxLineLen coordinates, and
\* queried in between; the scratch arrays and the heaps live on across the
\* builds.
RebuildNetworks == {<< >>} \cup {<<l>> : l \in SimpleLines(LifecycleCoords, MaxLineLen)}

Rebuild == \E net \in RebuildNetworks : BuildRouteGraph(net)

NextRebuild == Rebuild \/ RouteCall

SpecRebuild == LifecycleInit /\ [][NextRebuild]_vars

\* SpecSegments: a router built from the empty network or any one LineString
\* of up to MaxLineLen coordinates over BuildCoords, queried once (which may
\* create nodes), and expanded by any LineStrings of up to MaxExpandLineLen
\* coordinates over the three coordinates while the merged network has fewer
\* than MaxFeatures features.  The LineStrings may repeat a coordinate: a
\* segment may join a coordinate to itself, lie twice between the same two
\* coordinates, or be missing (a LineString of fewer than two coordinates).
SegmentsBuild ==
    /\ network.null
    /\ \E net \in Networks(BuildCoords, MaxLineLen) : BuildRouteGraph(net)

SegmentsRoute ==
    /\ ret.op = "buildRouteGraph"
    /\ \E start \in LifecycleCoords, end \in LifecycleCoords : GetRoute(start, end)

SegmentsExpand ==
    /\ ~network.null
    /\ Len(network.val) < MaxFeatures
    /\ \E l \in Lines(LifecycleCoords, MaxExpandLineLen) : ExpandRouteGraph(<<l>>)

NextSegments == SegmentsBuild \/ SegmentsRoute \/ SegmentsExpand

SpecSegments == LifecycleInit /\ [][NextSegments]_vars

\* SpecDetour: one search, by a router constructed with any of the four heap
\* classes and the squared distance, on every network of a single LineString
\* that walks MaxDetourLineLen - 1 segments over the coordinates 0..MaxLng of
\* one latitude, starting in the middle.  A segment over two units costs 4
\* and the two segments it bridges cost 2, so that a node can be inserted
\* into a queue a second time with a lower key while the search has far
\* enough to go to extract both entries.
LineCoords == {<<lng, 0>> : lng \in 0..MaxLng}

DetourNetworks ==
    {<<l>> : l \in {w \in Walks(LineCoords, MaxDetourLineLen) : w[1] = <<MaxLng \div 2, 0>>}}

DetourBuild ==
    /\ network.null
    /\ \E net \in DetourNetworks : BuildRouteGraph(net)

DetourRoute ==
    /\ ret.op = "buildRouteGraph"
    /\ \E start \in LineCoords, end \in LineCoords : GetRoute(start, end)

NextDetour == DetourBuild \/ DetourRoute

DetourInit == Constructor({"squared"}, HeapKinds)

SpecDetour == DetourInit /\ [][NextDetour]_vars

\* SpecSessions: a router constructed with any of the four heap classes, built
\* once from a LineString that goes round all four coordinates and back to
\* where it started (a cycle, on which opposite coordinates have two routes),
\* and then queried again and again.  No query creates a node: the graph
\* stays as built.  The node objects a PairingHeap or FibonacciHeap has
\* allocated stay in the model after clear; the host stops querying once a
\* heap of the router has allocated more than MaxAllocated of them.
Cycles(cs) ==
    {w \in Walks(cs, Cardinality(cs) + 1) :
        /\ w[1] = <<0, 0>>
        /\ w[Len(w)] = w[1]
        /\ {w[i] : i \in 1..Len(w)} = cs}

SessionNetworks == {<<l>> : l \in Cycles(Coords)}

\* The node objects a heap has allocated since it was constructed
Allocated(open) ==
    IF open.null THEN 0
    ELSE IF open.val.kind \in {"PairingHeap", "FibonacciHeap"} THEN Len(open.val.nodes)
    ELSE 0

SessionBuild ==
    /\ network.null
    /\ \E net \in SessionNetworks : BuildRouteGraph(net)

SessionRoute ==
    /\ ~network.null
    /\ Allocated(openForward) <= MaxAllocated
    /\ Allocated(openReverse) <= MaxAllocated
    /\ \E start \in Coords, end \in Coords : GetRoute(start, end)

NextSessions == SessionBuild \/ SessionRoute

SessionsInit == Constructor({"manhattan", "squared"}, HeapKinds)

SpecSessions == SessionsInit /\ [][NextSessions]_vars

\* SpecHeap: a host constructs a heap of one of the four classes and calls
\* its methods in any order: insert with a key of 1..MaxKey (the value is the
\* number of inserts before it, so that entries can be told apart), extractMin,
\* size, and peekMinKey and clear where the class has them.  pqHistory keeps
\* what the host itself knows: the entries it inserted and did not get back
\* since the last clear (oldest first), how often it inserted and got a value
\* back since then, and, from the first clear on, a heap constructed anew at
\* the last clear and given the same calls since.
HeapKeys == 1..MaxKey

\* The TypeError of a FibonacciHeap.extractMin that read beyond the degree table
Threw(h) == h.kind = "FibonacciHeap" /\ h.threw

\* The twin after the same insert or extractMin (there is none before the
\* first clear)
TwinInsert(twin, key, value) ==
    IF twin = Null THEN Null ELSE Ref(HeapInsert(twin.val, key, value))

TwinExtractMin(twin) ==
    IF twin = Null THEN Null ELSE Ref(HeapExtractMin(twin.val).h)

HeapNew ==
    /\ pq = Null
    /\ pq' = Ref(NewHeap(heapConstructor))
    /\ pqHistory' = NoHistory
    /\ ret' = [op |-> "new Heap"]
    /\ UNCHANGED <<graphVars, scratchVars, distanceMeasurement, heapConstructor>>

InsertCall(key) ==
    /\ pq # Null
    /\ ~Threw(pq.val)
    /\ pqHistory.inserted < MaxInserts
    /\ pq' = Ref(HeapInsert(pq.val, key, pqHistory.inserted))
    /\ pqHistory' = [pqHistory EXCEPT
                        !.live = Append(@, [key |-> key, value |-> pqHistory.inserted]),
                        !.inserts = @ + 1,
                        !.inserted = @ + 1,
                        !.twin = TwinInsert(@, key, pqHistory.inserted)]
    /\ ret' = [op |-> "insert", key |-> key, value |-> pqHistory.inserted]
    /\ UNCHANGED <<graphVars, scratchVars, distanceMeasurement, heapConstructor>>

\* live without the entry of the value extractMin returned
Without(live, value) == SelectSeq(live, LAMBDA e : Ref(e.value) # value)

Extracted(ex) ==
    /\ pq' = Ref(ex.h)
    /\ pqHistory' = [pqHistory EXCEPT
                        !.live = Without(@, ex.value),
                        !.extracts = IF ex.value = Null THEN @ ELSE @ + 1,
                        !.twin = TwinExtractMin(@)]
    /\ ret' = [op |-> "extractMin", result |-> ex.value, threw |-> Threw(ex.h)]

ExtractMinCall ==
    /\ pq # Null
    /\ ~Threw(pq.val)
    /\ Extracted(HeapExtractMin(pq.val))
    /\ UNCHANGED <<graphVars, scratchVars, distanceMeasurement, heapConstructor>>

SizeCall ==
    /\ pq # Null
    /\ ~Threw(pq.val)
    /\ ret' = [op |-> "size", result |-> HeapSize(pq.val)]
    /\ UNCHANGED <<graphVars, scratchVars, distanceMeasurement, heapConstructor,
                   pq, pqHistory>>

\* peekMinKey returns a number or null: Ref(key) or Null
PeekMinKeyCall ==
    /\ pq # Null
    /\ ~Threw(pq.val)
    /\ HasPeekMinKey(pq.val)
    /\ ret' = [op |-> "peekMinKey", result |-> Ref(HeapPeekMinKey(pq.val))]
    /\ UNCHANGED <<graphVars, scratchVars, distanceMeasurement, heapConstructor,
                   pq, pqHistory>>

ClearCall ==
    /\ pq # Null
    /\ ~Threw(pq.val)
    /\ HasClear(pq.val)
    /\ pq' = Ref(HeapClear(pq.val))
    /\ pqHistory' = [pqHistory EXCEPT !.live = << >>, !.inserts = 0, !.extracts = 0,
                                      !.twin = Ref(NewHeap(pq.val.kind))]
    /\ ret' = [op |-> "clear"]
    /\ UNCHANGED <<graphVars, scratchVars, distanceMeasurement, heapConstructor>>

NextHeap ==
    \/ HeapNew
    \/ \E key \in HeapKeys : InsertCall(key)
    \/ ExtractMinCall
    \/ SizeCall
    \/ PeekMinKeyCall
    \/ ClearCall

HeapInit == Constructor({"manhattan"}, HeapKinds)

SpecHeap == HeapInit /\ [][NextHeap]_vars

---------------------------------------------------------------------------
(***************************************************************************)
(* The network as the host handed it over, read as an undirected weighted  *)
(* graph on coordinates: the yardstick the results of getRoute are held    *)
(* against.  Nothing below reads the interner, the CSR or the scratch      *)
(* state, except where a property speaks about them.                       *)
(***************************************************************************)
\* c occurs in some LineString of the network
Occurs(c) ==
    \E f \in 1..Len(Features) : \E i \in 1..Len(Features[f]) : Features[f][i] = c

\* The segments of the network, each as the set of its (one or two) ends
NetworkLinks ==
    UNION {{{Features[f][i], Features[f][i + 1]} : i \in 1..(Len(Features[f]) - 1)} :
              f \in 1..Len(Features)}

\* some segment of the network joins a and b
Linked(a, b) == {a, b} \in NetworkLinks

\* With non-negative weights a cheapest connecting walk is a path that visits
\* no coordinate twice
SimplePaths == SimpleLines(Coords, Cardinality(Coords))

PathsOver(links, s, e) ==
    {p \in SimplePaths : /\ p[1] = s
                         /\ p[Len(p)] = e
                         /\ \A i \in 1..(Len(p) - 1) : {p[i], p[i + 1]} \in links}

ConnectingPaths(s, e) == PathsOver(NetworkLinks, s, e)

Connected(s, e) == ConnectingPaths(s, e) # {}

RECURSIVE PathCost(_)
PathCost(p) ==
    IF Len(p) < 2 THEN 0
    ELSE Measure(distanceMeasurement, p[1], p[2]) + PathCost(Tail(p))

Least(costs) == CHOOSE c \in costs : \A d \in costs : c <= d

MinCost(s, e) == Least({PathCost(p) : p \in ConnectingPaths(s, e)})

CostingExactly(paths, cost) == {p \in paths : PathCost(p) = cost}

ShortestPaths(s, e) == CostingExactly(ConnectingPaths(s, e), MinCost(s, e))

\* The last call was a getRoute that returned (a route or null)
Answered == ret.op = "getRoute" /\ ~ret.threw

\* The last call was a getRoute that returned a route
Found == Answered /\ ~ret.route.null

\* The node index of an interned coordinate
IndexOf(c) == coordinateIndexMap[c[1]][c[2]]

\* The edge u -> v is held by the CSR, or by the sparse overlay
EdgeInCsr(u, v) ==
    /\ ~csrOffsets.null
    /\ u < csrNodeCount
    /\ \E k \in 1..(At(csrOffsets.val, u + 1) - At(csrOffsets.val, u)) :
          At(csrIndices.val, At(csrOffsets.val, u) + k - 1) = v

EdgeInOverlay(u, v) ==
    \E k \in 1..Len(AdjNeighbors(adjacencyList, u)) :
        AdjNeighbors(adjacencyList, u)[k].node = v

---------------------------------------------------------------------------
\* C1: for distinct coordinates s, e that the network connects, getRoute(s, e)
\* returns a polyline whose summed edge weight is the minimum over all
\* connecting paths: no connecting path is strictly cheaper.
C1_ShortestRoute ==
    (Answered /\ ret.start # ret.end /\ Connected(ret.start, ret.end))
        => /\ ~ret.route.null
           /\ PathCost(ret.route.val) = MinCost(ret.start, ret.end)

\* A route was returned although a strictly costlier connecting path exists
C1_Witness ==
    /\ Found
    /\ Len(ret.route.val) >= 3
    /\ \E p \in ConnectingPaths(ret.start, ret.end) :
          PathCost(p) > PathCost(ret.route.val)

\* C2: getRoute(s, e) with s # e returns null exactly when the network does
\* not connect s and e; when the searches never meet (meeting node -1) the
\* result is null, and when s and e are connected it is not null.
C2_NullIffDisconnected ==
    (Answered /\ ret.start # ret.end)
        => /\ ret.route.null <=> ~Connected(ret.start, ret.end)
           /\ ret.meetingNode < 0 => ret.route.null
           /\ Connected(ret.start, ret.end) => ret.meetingNode >= 0

\* Null between two coordinates of the network that lie in different components
C2_Witness ==
    /\ Answered
    /\ ret.start # ret.end
    /\ \E a \in Coords : a # ret.start /\ Linked(ret.start, a)
    /\ \E b \in Coords : b # ret.end /\ Linked(ret.end, b)
    /\ ret.route.null
    /\ ret.meetingNode = -1

\* C3: every route returned by getRoute(s, e) starts with the coordinate of s
\* and ends with the coordinate of e.
C3_StartAndEnd ==
    Found => /\ Len(ret.route.val) >= 1
             /\ ret.route.val[1] = ret.start
             /\ ret.route.val[Len(ret.route.val)] = ret.end

\* A route through two intermediate coordinates
C3_Witness == Found /\ Len(ret.route.val) = 4

\* C4: every route returned has at least 2 coordinates, no two consecutive
\* coordinates are equal, and every consecutive pair is an edge held by the
\* CSR or by the sparse overlay at query time.
C4_ValidPolyline ==
    Found =>
        /\ Len(ret.route.val) >= 2
        /\ \A i \in 1..(Len(ret.route.val) - 1) :
              /\ ret.route.val[i] # ret.route.val[i + 1]
              /\ Indexed(coordinateIndexMap, ret.route.val[i])
              /\ Indexed(coordinateIndexMap, ret.route.val[i + 1])
              /\ \/ EdgeInCsr(IndexOf(ret.route.val[i]), IndexOf(ret.route.val[i + 1]))
                 \/ EdgeInOverlay(IndexOf(ret.route.val[i]), IndexOf(ret.route.val[i + 1]))

\* A route of two segments that passes a coordinate carrying a self-loop
C4_Witness ==
    /\ Found
    /\ Len(ret.route.val) >= 3
    /\ Linked(ret.route.val[2], ret.route.val[2])

\* C5: a route returned never holds the same coordinate twice, at any two
\* positions, also on graphs with zero-weight edges and self-loops.
C5_NoRepeatedCoordinate ==
    Found => \A i, j \in 1..Len(ret.route.val) :
                i # j => ret.route.val[i] # ret.route.val[j]

\* A route over a zero-weight edge, on a network with a self-loop on the route
C5_Witness ==
    /\ Found
    /\ Len(ret.route.val) >= 3
    /\ \E i \in 1..(Len(ret.route.val) - 1) :
          Measure(distanceMeasurement, ret.route.val[i], ret.route.val[i + 1]) = 0
    /\ \E i \in 1..Len(ret.route.val) : Linked(ret.route.val[i], ret.route.val[i])

\* The route getRoute(e, s) returns when it is called right after getRoute(s, e)
ReturnRoute == GetRouteOutcome(ret.end, ret.start).route

Backwards(p) == [i \in 1..Len(p) |-> p[Len(p) + 1 - i]]

\* back is exactly the reverse of the route p
ExactReverse(p, back) == ~back.null /\ back.val = Backwards(p)

\* back costs what the route p costs, and is its exact reverse when p is the
\* only shortest path
ReverseWhenUnique(p, back, shortest) ==
    /\ ~back.null
    /\ PathCost(back.val) = PathCost(p)
    /\ Cardinality(shortest) = 1 => back.val = Backwards(p)

\* C6 as stated: when getRoute(s, e) returns a polyline p, getRoute(e, s)
\* returns exactly the reverse of p, also when several equally short paths
\* exist.
C6_ExactReverse == Found => ExactReverse(ret.route.val, ReturnRoute)

\* C6: when getRoute(s, e) returns a polyline p, getRoute(e, s) returns a
\* polyline of the same total cost, and exactly the reverse of p when the
\* shortest path between s and e is unique.
C6_ReverseWhenUnique ==
    Found => ReverseWhenUnique(ret.route.val, ReturnRoute,
                               ShortestPaths(ret.start, ret.end))

\* A route of two or more segments on a network where it is the only shortest
\* path and a costlier connecting path exists
C6_Witness ==
    /\ Found
    /\ Len(ret.route.val) >= 3
    /\ Cardinality(ShortestPaths(ret.start, ret.end)) = 1
    /\ Cardinality(ConnectingPaths(ret.start, ret.end)) >= 2
    /\ ReturnRoute.val = Backwards(ret.route.val)

\* C7: getRoute(s, e) with s and e the same coordinate returns null, whether
\* or not the coordinate is on the network, and runs no search: the scratch
\* arrays and the queues are left as they were.
C7_SameCoordinate ==
    [][(ret'.op = "getRoute" /\ ~ret'.threw /\ ret'.start = ret'.end)
          => (ret'.route.null /\ UNCHANGED scratchVars)]_vars

\* Null for an off-network coordinate queried against itself, on a router
\* whose scratch state an earlier search has filled
C7_Witness ==
    /\ Answered
    /\ ret.start = ret.end
    /\ ~Occurs(ret.start)
    /\ Features # << >>
    /\ scratchCapacity > 0
    /\ ret.route.null

\* C8: while buildRouteGraph has never been called, getRoute and
\* expandRouteGraph fail with the not-built error and change nothing of the
\* router (so they keep failing until the build); once buildRouteGraph has been
\* called, even with an empty network, neither raises an error.
C8_NotBuilt ==
    [][IF network.null
       THEN ret'.op \in {"getRoute", "expandRouteGraph"}
               => /\ ret'.threw
                  /\ ret'.error = NotBuiltError
                  /\ UNCHANGED <<graphVars, fixedVars, scratchVars>>
       ELSE ~ret'.threw]_vars

\* expandRouteGraph has failed on a router never built
C8_Witness ==
    /\ network.null
    /\ ret.op = "expandRouteGraph"
    /\ ret.threw
    /\ ret.error = NotBuiltError

\* C9: when the start or the end coordinate (or both) occurs in no polyline
\* of the built network, the empty network included, getRoute returns null.
C9_OffNetworkIsNull ==
    (Answered /\ (~Occurs(ret.start) \/ ~Occurs(ret.end))) => ret.route.null

\* A search from a network coordinate to a coordinate off a non-empty network
C9_Witness ==
    /\ Answered
    /\ ret.searched
    /\ Occurs(ret.start)
    /\ ~Occurs(ret.end)
    /\ ret.route.null

\* getRoute(a, b) on the current state returns a route of minimum cost
AtMinCost(route, a, b) == ~route.null /\ PathCost(route.val) = MinCost(a, b)

RoutesAtMinCost(a, b) == AtMinCost(GetRouteOutcome(a, b).route, a, b)

\* The last call was an expandRouteGraph whose LineString (the last feature
\* of the merged network) is the first one the coordinate c occurs in
JustConnected(c) ==
    /\ ret.op = "expandRouteGraph"
    /\ ~ret.threw
    /\ \A f \in 1..(Len(Features) - 1) :
          \A i \in 1..Len(Features[f]) : Features[f][i] # c
    /\ \E i \in 1..Len(Features[Len(Features)]) : Features[Len(Features)][i] = c

\* C10: a node that an earlier getRoute created for an off-network endpoint
\* (it is interned and occurs in no polyline) makes every later getRoute to
\* or from it return null as long as no expandRouteGraph has added a segment
\* with its coordinate; right after the expandRouteGraph that adds the first
\* segment with its coordinate, getRoute between it and every coordinate the
\* network connects it to returns a route of minimum cost, in both directions.
C10_CreatedNode ==
    /\ [][(ret'.op = "getRoute" /\ ~ret'.threw)
             => \A c \in {ret'.start, ret'.end} :
                   (Indexed(coordinateIndexMap, c) /\ ~Occurs(c)) => ret'.route.null]_vars
    /\ [](\A c \in Coords :
             JustConnected(c)
                => \A e \in Coords \ {c} :
                      Connected(c, e) => (RoutesAtMinCost(c, e) /\ RoutesAtMinCost(e, c)))

\* expandRouteGraph has just connected <<0, 0>>, which was interned before
\* every coordinate of the network (the first feature of every network lies
\* over BuildCoords, so only a getRoute can have interned <<0, 0>> first), and
\* the network now joins it to another coordinate by two paths of different cost
C10_Witness ==
    /\ JustConnected(<<0, 0>>)
    /\ coordinates # << >>
    /\ coordinates[1] = <<0, 0>>
    /\ \E e \in Coords \ {<<0, 0>>} :
          \E p \in ConnectingPaths(<<0, 0>>, e) : PathCost(p) > MinCost(<<0, 0>>, e)

---------------------------------------------------------------------------
\* The router after `new TerraRoute({ distanceMeasurement, heap })` and one
\* buildRouteGraph(net): no scratch arrays and no heaps yet
BuiltRouter(net, fn, kind) ==
    [distanceMeasurement |-> fn, heapConstructor |-> kind,
     coordinateIndexMap |-> BuiltGraph(net, fn).coordinateIndexMap,
     coordinates |-> BuiltGraph(net, fn).coordinates,
     adjacencyList |-> BuiltGraph(net, fn).adjacencyList,
     csrOffsets |-> BuiltGraph(net, fn).csrOffsets,
     csrIndices |-> BuiltGraph(net, fn).csrIndices,
     csrDistances |-> BuiltGraph(net, fn).csrDistances,
     csrNodeCount |-> BuiltGraph(net, fn).csrNodeCount,
     gScoreScratch |-> << >>, cameFromScratch |-> << >>, visitedScratch |-> << >>,
     gScoreRevScratch |-> << >>, cameFromRevScratch |-> << >>,
     visitedRevScratch |-> << >>, scratchCapacity |-> 0,
     openForward |-> Null, openReverse |-> Null]

\* Two results of getRoute agree on null / non-null and on the total cost
SameCost(a, b) == a.null = b.null /\ (~a.null => PathCost(a.val) = PathCost(b.val))

\* The last call was an expandRouteGraph that went through
Expanded == ret.op = "expandRouteGraph" /\ ~ret.threw

\* C11: a router built from net1 and expanded by net2 (and so on) and a
\* router built in one go from net1 followed by net2 agree, for every query
\* (s, e), on whether a route exists and on its total cost.
C11_ExpandConsistency ==
    Expanded =>
        \A s, e \in LifecycleCoords :
            SameCost(GetRouteOutcome(s, e).route,
                     RouteOn(BuiltRouter(network.val, distanceMeasurement, heapConstructor),
                             s, e).route)

\* After an expansion of a built network the CSR arrays differ from those of
\* the one-go build, and some route runs over three coordinates
C11_Witness ==
    /\ Expanded
    /\ Len(network.val) = 2
    /\ csrIndices # BuiltGraph(network.val, distanceMeasurement).csrIndices
    /\ \E s, e \in LifecycleCoords :
          /\ ~GetRouteOutcome(s, e).route.null
          /\ Len(GetRouteOutcome(s, e).route.val) = 3

---------------------------------------------------------------------------
\* The last call was a buildRouteGraph
Built == ret.op = "buildRouteGraph"

\* C12: a buildRouteGraph(net) right after a buildRouteGraph(net) of the same
\* network leaves the coordinate table, the interner and the CSR arrays
\* (offsets, neighbours, weights, node count) as the first call left them, and
\* touches nothing else a query reads; after a build, whatever the router went
\* through before, every query returns the route that a router newly
\* constructed and built once from that network returns.
C12_BuildTwice ==
    /\ [][(Built /\ Built' /\ network' = network)
            => /\ coordinates' = coordinates
               /\ coordinateIndexMap' = coordinateIndexMap
               /\ csrOffsets' = csrOffsets
               /\ csrIndices' = csrIndices
               /\ csrDistances' = csrDistances
               /\ csrNodeCount' = csrNodeCount
               /\ adjacencyList' = adjacencyList
               /\ UNCHANGED <<fixedVars, scratchVars>>]_vars
    /\ [](Built =>
            \A s, e \in LifecycleCoords :
                GetRouteOutcome(s, e).route
                    = RouteOn(BuiltRouter(network.val, distanceMeasurement,
                                          heapConstructor), s, e).route)

\* A network of one segment was built on a router whose scratch arrays and
\* heaps an earlier search (over three nodes) has used
C12_Witness ==
    /\ Built
    /\ Len(coordinates) = 2
    /\ scratchCapacity = 3
    /\ ~openForward.null
    /\ \E s, e \in LifecycleCoords : ~GetRouteOutcome(s, e).route.null

---------------------------------------------------------------------------
\* The step is a getRoute call that returned
Routing == ret'.op = "getRoute" /\ ~ret'.threw

\* The coordinates among the two endpoints of the call that were not interned
\* before it
Created == {c \in {ret'.start, ret'.end} : ~Indexed(coordinateIndexMap, c)}

\* C20 as stated: no getRoute call, whatever its endpoints, changes the CSR:
\* offsets, neighbours, weights and the CSR node count are as before the call.
C20_CsrUntouched ==
    [][Routing => /\ csrOffsets' = csrOffsets
                  /\ csrIndices' = csrIndices
                  /\ csrDistances' = csrDistances
                  /\ csrNodeCount' = csrNodeCount]_vars

\* C20, amended: getRoute never changes the neighbours and weights arrays nor
\* any existing entry of offsets, so the rows of the existing nodes stay as
\* they are; a call both of whose endpoints are interned leaves offsets and
\* the node count as they are too; each endpoint that is not interned yet
\* becomes a node with an empty row: offsets gains one entry equal to its
\* last, and the node count goes up by one.
C20_RowsUntouched ==
    [][Routing =>
          /\ csrIndices' = csrIndices
          /\ csrDistances' = csrDistances
          /\ csrNodeCount' = csrNodeCount + Cardinality(Created)
          /\ Len(csrOffsets'.val) = Len(csrOffsets.val) + Cardinality(Created)
          /\ \A i \in 1..Len(csrOffsets'.val) :
                csrOffsets'.val[i] = csrOffsets.val[Min2(i, Len(csrOffsets.val))]
          /\ Len(csrOffsets'.val) = csrNodeCount' + 1]_vars

\* A query between a node with neighbours and a coordinate off the network has
\* added an empty row to a CSR that holds edges
C20_Witness ==
    /\ Answered
    /\ Len(csrIndices.val) > 0
    /\ csrNodeCount > 0
    /\ ~Occurs(ret.end)
    /\ Occurs(ret.start)
    /\ At(csrOffsets.val, csrNodeCount) = At(csrOffsets.val, csrNodeCount - 1)

---------------------------------------------------------------------------
\* The route a router with heap class kind, newly constructed and built from
\* the same network, returns for the query of the last call
RouteWith(kind) ==
    RouteOn(BuiltRouter(network.val, distanceMeasurement, kind), ret.start, ret.end).route

\* C13: whichever of the four heap classes the router is constructed with,
\* getRoute on the same network and query gives null for all of them or a
\* route for all of them, and the routes have the same total cost: the answer
\* of every router of SpecQueues agrees with the answer of a router on the
\* default heap, hence the answers of any two heap classes agree.
C13_QueueEquivalence ==
    Answered => SameCost(ret.route, RouteWith(DefaultHeap))

\* A router on a heap without peekMinKey, judged by the last finalised g values,
\* has returned a route over four coordinates or more
C13_Witness ==
    /\ Found
    /\ heapConstructor \in {"MinHeap", "PairingHeap"}
    /\ Len(ret.route.val) >= 4

---------------------------------------------------------------------------
(***************************************************************************)
(* The heaps of SpecHeap, held against what their host knows.              *)
(***************************************************************************)
\* The entries the host inserted and did not get back, oldest first
Live == pqHistory.live

Values(entries) == {entries[i].value : i \in 1..Len(entries)}

\* The least key among the entries
LeastKey(entries) ==
    CHOOSE k \in {entries[i].key : i \in 1..Len(entries)} :
        \A i \in 1..Len(entries) : k <= entries[i].key

\* The oldest of the entries of least key
OldestLeast(entries) ==
    entries[CHOOSE i \in 1..Len(entries) :
                /\ entries[i].key = LeastKey(entries)
                /\ \A j \in 1..(i - 1) : entries[j].key # LeastKey(entries)]

\* What the heap still gives back: the values of up to `calls` calls of
\* extractMin, in the order returned, ending at the first null
RECURSIVE Drain(_, _)
Drained(ex, calls) ==
    IF ex.value = Null THEN << >> ELSE <<ex.value.val>> \o Drain(ex.h, calls - 1)

Drain(h, calls) == IF calls = 0 THEN << >> ELSE Drained(HeapExtractMin(h), calls)

Contents(h) == Drain(h, MaxInserts + 1)

\* The heap holds the live entries and nothing else
HoldsLive ==
    /\ Len(Contents(pq.val)) = Len(Live)
    /\ {Contents(pq.val)[i] : i \in 1..Len(Live)} = Values(Live)

\* The step is a call of extractMin that returns null on the empty heap and
\* otherwise the value of a live entry of least key
ReturnsLeast ==
    ret'.op = "extractMin" =>
        /\ ~ret'.threw
        /\ IF Live = << >> THEN ret'.result = Null
           ELSE /\ ret'.result # Null
                /\ \E i \in 1..Len(Live) :
                       /\ Live[i].value = ret'.result.val
                       /\ Live[i].key = LeastKey(Live)

\* C14: whatever the class and the calls before, extractMin returns the value
\* of an entry of minimum key and removes exactly that entry (the heap goes on
\* holding the other live entries and nothing else); on an empty heap it
\* returns null and the heap stays empty.
C14_ExtractMin ==
    /\ [][ReturnsLeast]_vars
    /\ [](pq # Null => HoldsLive)

\* extractMin has returned a value while two entries of different keys stay
\* behind, after an earlier successful extractMin
C14_Witness ==
    /\ ret.op = "extractMin"
    /\ ret.result # Null
    /\ pqHistory.extracts >= 2
    /\ Len(Live) = 2
    /\ Live[1].key # Live[2].key

\* The step is a call of extractMin on a non-empty heap that returns the
\* oldest live entry of least key
ReturnsOldestLeast ==
    ret'.op = "extractMin" /\ Live # << >> =>
        ret'.result = Ref(OldestLeast(Live).value)

\* C15 as stated: in every class, entries of equal key leave in the order
\* they were inserted.
C15_StableEveryClass == [][ReturnsOldestLeast]_vars

\* The classes that order by (key, insertion counter)
CountingClasses == {"MinHeap", "FourAryHeap"}

\* C15: in MinHeap and FourAryHeap, entries of equal key leave in the order
\* they were inserted.
C15_StableCountingClasses ==
    [][(heapConstructor \in CountingClasses) => ReturnsOldestLeast]_vars

\* A MinHeap or FourAryHeap has returned the first entry inserted while three
\* later entries, all of key 1, stay behind: the entry returned had key 1 too
C15_Witness ==
    /\ heapConstructor \in CountingClasses
    /\ ret.op = "extractMin"
    /\ ret.result = Ref(0)
    /\ Len(Live) = 3
    /\ \A i \in 1..Len(Live) : Live[i].key = 1

\* C16: size() is the number of inserts less the number of extractMin calls
\* that returned a value, both counted since the last clear; it is never
\* negative, and an extractMin on the empty heap leaves it as it was.
C16_Size ==
    pq # Null =>
        /\ HeapSize(pq.val) = pqHistory.inserts - pqHistory.extracts
        /\ HeapSize(pq.val) >= 0
        /\ ret.op = "size" => ret.result = pqHistory.inserts - pqHistory.extracts
        /\ ret.op = "extractMin" /\ ret.result = Null => HeapSize(pq.val) = 0

\* size() has returned 0 on a heap that was filled and emptied by extractMin
C16_Witness ==
    /\ ret.op = "size"
    /\ ret.result = 0
    /\ pqHistory.inserts >= 2
    /\ pqHistory.extracts = pqHistory.inserts

\* The step is a call of peekMinKey that returns the least live key, or
\* +Infinity on the empty heap, and leaves the heap as it was
PeeksLeast ==
    ret'.op = "peekMinKey" =>
        /\ ret'.result = Ref(IF Live = << >> THEN Infinity ELSE LeastKey(Live))
        /\ pq' = pq
        /\ pqHistory' = pqHistory

C18_PeekNullOnNew ==
    /\ heapConstructor = "FourAryHeap"
    /\ ret.op = "peekMinKey"
    /\ pqHistory = NoHistory
    => ret.result = Null

---------------------------------------------------------------------------
(***************************************************************************)
(* The CSR held against the segments of the network.                       *)
(***************************************************************************)
\* The node indices
Nodes == 0..(Len(coordinates) - 1)

\* The CSR row of node u: its entries [node, distance] in the order stored
Row(u) ==
    IF csrOffsets.null \/ u >= csrNodeCount THEN << >>
    ELSE CsrSlice(csrOffsets.val, csrIndices.val, csrDistances.val, u)

\* How often the entry (v, w) stands in a row
Times(row, v, w) ==
    Cardinality({k \in 1..Len(row) : row[k].node = v /\ row[k].distance = w})

\* The ends of the segments of the network: <<f, i, 1>> is the first end of
\* segment i of feature f and <<f, i, 2>> its second end
SegmentEnds ==
    {<<f, i, side>> \in (1..Len(Features)) \X (1..MaxSearchLineLen) \X {1, 2} :
        i < Len(Features[f])}

\* The coordinate at an end of a segment, and the coordinate at its other end
EndAt(x) == Features[x[1]][x[2] + x[3] - 1]
FarEndOf(x) == Features[x[1]][x[2] + 2 - x[3]]

\* The distances a segment can have
Distances == {Measure(distanceMeasurement, a, b) : a, b \in Coords}

\* A build or an expansion has gone through
Grown == ~network.null

\* C22: after every buildRouteGraph and every expandRouteGraph (and every
\* getRoute in between), for each entry (v, w) in the row of node u the row
\* of node v holds the entry (u, w) as many times.
C22_Undirected ==
    Grown =>
        \A u \in Nodes : \A k \in 1..Len(Row(u)) :
            /\ Row(u)[k].node \in Nodes
            /\ Times(Row(u), Row(u)[k].node, Row(u)[k].distance)
                  = Times(Row(Row(u)[k].node), u, Row(u)[k].distance)

\* An expansion has laid a second segment between two nodes: each of the two
\* rows holds the same entry twice
C22_Witness ==
    /\ Expanded
    /\ \E u \in Nodes : \E k \in 1..Len(Row(u)) :
          /\ Row(u)[k].node # u
          /\ Times(Row(u), Row(u)[k].node, Row(u)[k].distance) = 2

\* C23: after every buildRouteGraph and expandRouteGraph (and every getRoute
\* in between), offsets has N + 1 entries, starts at 0 and never decreases;
\* the row of node u is as long as the number of segment ends at u (a segment
\* from u to u counts twice); offsets[N] is twice the number of segments; and
\* the neighbours and weights arrays are filled to that length with exactly
\* one entry per segment end: its far end and the distance of its segment.
C23_Offsets ==
    Grown =>
        /\ csrNodeCount = Len(coordinates)
        /\ Len(csrOffsets.val) = Len(coordinates) + 1
        /\ At(csrOffsets.val, 0) = 0
        /\ \A u \in Nodes :
              /\ At(csrOffsets.val, u) <= At(csrOffsets.val, u + 1)
              /\ At(csrOffsets.val, u + 1) - At(csrOffsets.val, u)
                    = Cardinality({x \in SegmentEnds : EndAt(x) = At(coordinates, u)})
        /\ At(csrOffsets.val, Len(coordinates)) * 2 = 2 * Cardinality(SegmentEnds)
        /\ Len(csrIndices.val) = At(csrOffsets.val, Len(coordinates))
        /\ Len(csrDistances.val) = At(csrOffsets.val, Len(coordinates))
        /\ \A u, v \in Nodes : \A w \in Distances :
              Times(Row(u), v, w)
                = Cardinality({x \in SegmentEnds :
                                  /\ EndAt(x) = At(coordinates, u)
                                  /\ FarEndOf(x) = At(coordinates, v)
                                  /\ Measure(distanceMeasurement, EndAt(x), FarEndOf(x)) = w})

\* After an expansion one node has a segment to itself and a segment to
\* another node, and a third node, created by an earlier query, is on no
\* segment and has an empty row
C23_Witness ==
    /\ Expanded
    /\ \E u \in Nodes :
          /\ Len(Row(u)) = 3
          /\ Times(Row(u), u, 0) = 2
    /\ \E v \in Nodes : ~Occurs(At(coordinates, v)) /\ Len(Row(v)) = 0

---------------------------------------------------------------------------
(***************************************************************************)
(* What an expansion changes.                                              *)
(***************************************************************************)
\* The step is an expandRouteGraph that went through
Expanding == ret'.op = "expandRouteGraph" /\ ~ret'.threw

\* The ends of the segments of one LineString in the order the segments are
\* walked: the first end of segment 1, its second end, the first end of
\* segment 2, ...; each as [at, far]: the coordinate at this end and the
\* coordinate at the other end of the segment
EndsOfLine(l) ==
    [p \in 1..(IF Len(l) < 2 THEN 0 ELSE 2 * (Len(l) - 1)) |->
        IF p % 2 = 1 THEN [at |-> l[(p + 1) \div 2], far |-> l[(p + 1) \div 2 + 1]]
        ELSE [at |-> l[p \div 2 + 1], far |-> l[p \div 2]]]

RECURSIVE EndsOfLines(_)
EndsOfLines(features) ==
    IF features = << >> THEN << >>
    ELSE EndsOfLine(Head(features)) \o EndsOfLines(Tail(features))

\* The segment ends at coordinate c among ends, in order
EndsAtCoordinate(ends, c) == SelectSeq(ends, LAMBDA x : x.at = c)

\* The features the step added to the network
AddedFeatures == SubSeq(network'.val, Len(network.val) + 1, Len(network'.val))

\* The row of node u after the step
RowAfter(u) == CsrSlice(csrOffsets'.val, csrIndices'.val, csrDistances'.val, u)

\* The entries the added features give node u, in segment order, with the
\* node indices of after the step
AppendedTo(u) ==
    LET ends == EndsAtCoordinate(EndsOfLines(AddedFeatures), At(coordinates, u))
    IN [k \in 1..Len(ends) |->
            [node |-> coordinateIndexMap'[ends[k].far[1]][ends[k].far[2]],
             distance |-> Measure(distanceMeasurement, ends[k].at, ends[k].far)]]

\* C24: an expandRouteGraph that goes through keeps every coordinate at its
\* index (in the coordinate table and in the interner), makes the new row of
\* every existing node its previous row followed by the entries of the added
\* segments at that node in segment order, and leaves the overlay without an
\* edge.
C24_ExpandFrame ==
    [][Expanding =>
        /\ Len(coordinates') >= Len(coordinates)
        /\ csrNodeCount' = Len(coordinates')
        /\ \A u \in Nodes :
              /\ At(coordinates', u) = At(coordinates, u)
              /\ coordinateIndexMap'[At(coordinates, u)[1]][At(coordinates, u)[2]] = u
              /\ RowAfter(u) = Row(u) \o AppendedTo(u)
        /\ adjacencyList' = [n \in 1..Len(coordinates') |-> Null]]_vars

\* The network has a built feature and an added one, and a node has entries
\* of segments of both: a previous row and appended entries
C24_Witness ==
    /\ Expanded
    /\ \E u \in Nodes :
          /\ \E x \in SegmentEnds : x[1] = 1 /\ EndAt(x) = At(coordinates, u)
          /\ \E x \in SegmentEnds :
                x[1] = 2 /\ EndAt(x) = At(coordinates, u) /\ FarEndOf(x) # EndAt(x)
          /\ Len(Row(u)) >= 3

---------------------------------------------------------------------------
(***************************************************************************)
(* The interner.                                                           *)
(***************************************************************************)
\* The coordinates of cs that are not in seen, each once, in the order of
\* their first occurrence
RECURSIVE Unseen(_, _)
Unseen(cs, seen) ==
    IF cs = << >> THEN << >>
    ELSE IF Head(cs) \in seen THEN Unseen(Tail(cs), seen)
    ELSE <<Head(cs)>> \o Unseen(Tail(cs), seen \cup {Head(cs)})

\* The coordinates the segments of the features pass, in the order walked (a
\* LineString of fewer than two coordinates has no segment)
RECURSIVE Walked(_)
Walked(features) ==
    IF features = << >> THEN << >>
    ELSE (IF Len(Head(features)) < 2 THEN << >> ELSE Head(features)) \o Walked(Tail(features))

\* The coordinates that have an index
Interned == {coordinates[i] : i \in 1..Len(coordinates)}

\* The step is a buildRouteGraph
Building == ret'.op = "buildRouteGraph"

\* index and coord are inverse to each other, and the indices are 0..N-1
InternerBijection ==
    /\ \A i \in Nodes :
          /\ Indexed(coordinateIndexMap, At(coordinates, i))
          /\ IndexOf(At(coordinates, i)) = i
    /\ \A lng \in DOMAIN coordinateIndexMap : \A lat \in DOMAIN coordinateIndexMap[lng] :
          /\ coordinateIndexMap[lng][lat] \in Nodes
          /\ At(coordinates, coordinateIndexMap[lng][lat]) = <<lng, lat>>
    /\ \A x \in SegmentEnds : EndAt(x) \in Interned

\* C26: coord(index(c)) = c for every interned coordinate, index(coord(i)) = i
\* for every i in [0, N), every coordinate on a segment of the network is
\* interned, and the indices are dense and in first-seen order: a build
\* numbers the coordinates of its segments from 0 in the order walked, and an
\* expansion and a query number the coordinates they see for the first time
\* from N on, in the order they see them (a query: start, then end).
C26_Interner ==
    /\ [](InternerBijection)
    /\ [][Building => coordinates' = Unseen(Walked(network'.val), {})]_vars
    /\ [][Expanding =>
            coordinates' = coordinates \o Unseen(Walked(AddedFeatures), Interned)]_vars
    /\ [][Routing =>
            /\ coordinates' = coordinates \o Unseen(<<ret'.start, ret'.end>>, Interned)
            /\ Indexed(coordinateIndexMap', ret'.start)
            /\ Indexed(coordinateIndexMap', ret'.end)]_vars

\* Three coordinates, two under the same longitude; the first was interned by
\* a query and is on no segment, a later one came with an expansion
C26_Witness ==
    /\ Expanded
    /\ Len(coordinates) = 3
    /\ \E u, v \in Nodes :
          /\ u < v
          /\ ~Occurs(At(coordinates, u))
          /\ Occurs(At(coordinates, v))

---------------------------------------------------------------------------
(***************************************************************************)
(* The scratch arrays at the start of a search.                            *)
(***************************************************************************)
\* The node count a getRoute(start, end) searches with, or -1 when the call
\* returns before the search (both endpoints are the same node)
SearchNodeCount(gs, ge) == IF gs.index = ge.index THEN -1 ELSE Len(ge.coords)

NodeCountOf(gs, end) == SearchNodeCount(gs, GetOrCreateIndex(end, gs))

NodeCountFor(start, end) ==
    NodeCountOf(GetOrCreateIndex(start, GraphState(ThisRouter)), end)

\* An array after ensureScratch(n) and fill(init, 0, n) has at least n slots
\* and holds init in the slots [0, n)
Reset(arr, init, n) ==
    /\ Len(EnsureScratch(n, scratchCapacity, arr, init)) >= n
    /\ \A i \in 0..(n - 1) : At(EnsureScratch(n, scratchCapacity, arr, init), i) = init

\* Each scratch array is as long as the capacity says
ScratchSized ==
    /\ Len(gScoreScratch) = scratchCapacity
    /\ Len(gScoreRevScratch) = scratchCapacity
    /\ Len(cameFromScratch) = scratchCapacity
    /\ Len(cameFromRevScratch) = scratchCapacity
    /\ Len(visitedScratch) = scratchCapacity
    /\ Len(visitedRevScratch) = scratchCapacity

ScratchReset(n) ==
    n >= 0 =>
        /\ Reset(gScoreScratch, Infinity, n)
        /\ Reset(gScoreRevScratch, Infinity, n)
        /\ Reset(cameFromScratch, -1, n)
        /\ Reset(cameFromRevScratch, -1, n)
        /\ Reset(visitedScratch, 0, n)
        /\ Reset(visitedRevScratch, 0, n)

---------------------------------------------------------------------------
(***************************************************************************)
(* A build as a function of its network alone.                             *)
(***************************************************************************)
\* The entries the segments of the network give node u, in segment order
EntriesAt(u) ==
    LET ends == EndsAtCoordinate(EndsOfLines(Features), At(coordinates, u))
    IN [k \in 1..Len(ends) |->
            [node |-> IndexOf(ends[k].far),
             distance |-> Measure(distanceMeasurement, ends[k].at, ends[k].far)]]

---------------------------------------------------------------------------
(***************************************************************************)
(* The search of the one query of a router, taken again from the scratch   *)
(* arrays and heaps the router was constructed with.                       *)
(***************************************************************************)
\* This router with the scratch arrays and heaps it was constructed with: what
\* the one getRoute of a router started from, now that its endpoints are
\* interned
AsConstructed ==
    [ThisRouter EXCEPT !.gScoreScratch = << >>, !.cameFromScratch = << >>,
                       !.visitedScratch = << >>, !.gScoreRevScratch = << >>,
                       !.cameFromRevScratch = << >>, !.visitedRevScratch = << >>,
                       !.scratchCapacity = 0,
                       !.openForward = Null, !.openReverse = Null]

\* The last call was a getRoute that went into the main loop
SearchedLast == Answered /\ ret.searched

\* The outcome of the last getRoute: the search state when the main loop
\* stopped, among others
LastSearch == RouteOn(AsConstructed, ret.start, ret.end)

\* The main loop stopped because a queue ran empty
QueueRanEmpty(st) == ~(HeapSize(st.openF) > 0 /\ HeapSize(st.openR) > 0)

\* When the loop stopped with a meeting node, the best path cost is the least
\* cost of a path of the network between the two endpoints
BestIsShortest(o) ==
    /\ o.st.meetingNode = ret.meetingNode
    /\ o.st.gF = gScoreScratch
    /\ o.st.gR = gScoreRevScratch
    /\ o.route = ret.route
    /\ o.st.meetingNode >= 0 =>
          /\ Connected(ret.start, ret.end)
          /\ o.st.bestPathCost = MinCost(ret.start, ret.end)

\* C28: whenever the main loop of a getRoute stops, by the peekMinKey bound,
\* by the bound on the last extracted g values (heaps without peekMinKey) or
\* because a queue is empty, a meeting node >= 0 implies that the best path
\* cost equals the true shortest distance between the endpoints.
C28_StopSound == SearchedLast => BestIsShortest(LastSearch)

StoppedByFallback(o) ==
    /\ ~QueueRanEmpty(o.st)
    /\ ~HasPeekMinKey(o.st.openF)
    /\ o.st.meetingNode >= 0
    /\ \E p \in ConnectingPaths(ret.start, ret.end) : PathCost(p) > o.st.bestPathCost

\* A search on heaps without peekMinKey stopped by the bound on the last
\* extracted g values, with both queues non-empty, although a costlier
\* connecting path exists
C28_Witness == SearchedLast /\ StoppedByFallback(LastSearch)

\* The search states at the head of the main loop, one per iteration, and
\* the state the loop stopped in
RECURSIVE Iterations(_, _, _, _)
Iterations(st, csr, adj, seen) ==
    IF QueueRanEmpty(st) \/ ShouldStop(st) THEN Append(seen, st)
    ELSE Iterations(IF ExpandsForward(st)
                    THEN AfterForward(st, ExpandSide(ForwardSide(st), csr, adj))
                    ELSE AfterReverse(st, ExpandSide(ReverseSide(st), csr, adj)),
                    csr, adj, Append(seen, st))

IterationsOf(r, gs, ge) ==
    Iterations(InitialSearch(r, gs.index, ge.index, Len(ge.coords)),
               [offsets |-> ge.offsets, indices |-> r.csrIndices,
                distances |-> r.csrDistances, nodeCount |-> ge.nodeCount],
               ge.adj, << >>)

IterationsFrom(r, gs, end) == IterationsOf(r, gs, GetOrCreateIndex(end, gs))

IterationsOn(r, start, end) ==
    IterationsFrom(r, GetOrCreateIndex(start, GraphState(r)), end)

\* The iterations of the last getRoute
LastIterations == IterationsOn(AsConstructed, ret.start, ret.end)

\* The state the loop stopped in is the one the call left in the scratch
\* arrays and returned its meeting node from
LeftBehind(st) ==
    /\ st.gF = gScoreScratch
    /\ st.gR = gScoreRevScratch
    /\ st.prevF = cameFromScratch
    /\ st.nextR = cameFromRevScratch
    /\ st.visF = visitedScratch
    /\ st.visR = visitedRevScratch
    /\ st.meetingNode = ret.meetingNode

\* Nothing of the forward side, or of the reverse side, differs between a and b
ForwardKept(a, b) ==
    /\ b.openF = a.openF
    /\ b.gF = a.gF
    /\ b.prevF = a.prevF
    /\ b.visF = a.visF
    /\ b.lastExtractedGForward = a.lastExtractedGForward

ReverseKept(a, b) ==
    /\ b.openR = a.openR
    /\ b.gR = a.gR
    /\ b.nextR = a.nextR
    /\ b.visR = a.visR
    /\ b.lastExtractedGReverse = a.lastExtractedGReverse

\* From a to b the forward queue lost its minimum and the reverse side was
\* left alone when the forward queue was no larger than the reverse queue,
\* and the other way round otherwise
OneSide(a, b) ==
    IF HeapSize(a.openF) <= HeapSize(a.openR)
    THEN b.openF # a.openF /\ ReverseKept(a, b)
    ELSE b.openR # a.openR /\ ForwardKept(a, b)

OneSideEach(t) ==
    /\ \A i \in 1..(Len(t) - 1) : OneSide(t[i], t[i + 1])
    /\ LeftBehind(t[Len(t)])

\* C29: every iteration of the main loop expands exactly one side: forward
\* when size(openF) <= size(openR), otherwise reverse; the queue, the g
\* values, the pointers and the visited flags of the other side are after the
\* iteration what they were before it.
C29_OneSide == SearchedLast => OneSideEach(LastIterations)

BothSides(t) ==
    /\ Len(t) >= 5
    /\ \E i, j \in 1..(Len(t) - 1) :
          /\ i < j
          /\ HeapSize(t[i].openF) > HeapSize(t[i].openR)
          /\ HeapSize(t[j].openF) <= HeapSize(t[j].openR)
          /\ t[j + 1].gF # t[j].gF

\* A search of four iterations or more, in which a reverse iteration is
\* followed, later, by a forward iteration that lowers a forward g value
C29_Witness == SearchedLast /\ BothSides(LastIterations)

\* The node an iteration extracts, the side it extracts it on (TRUE: forward)
Forward(a) == HeapSize(a.openF) <= HeapSize(a.openR)
Current(a) ==
    IF Forward(a) THEN HeapExtractMin(a.openF).value.val
    ELSE HeapExtractMin(a.openR).value.val

\* The node the iteration extracts was finalised on its side before
Stale(a) ==
    IF Forward(a) THEN At(a.visF, Current(a)) # 0 ELSE At(a.visR, Current(a)) # 0

\* What the iterations extract: the side, the node, and whether the node was
\* finalised on that side before
Extractions(t) ==
    [i \in 1..(Len(t) - 1) |->
        [forward |-> Forward(t[i]), node |-> Current(t[i]), stale |-> Stale(t[i])]]

\* An iteration on a stale entry changes nothing but the queue it came from;
\* any other iteration sets the visited flag of its node, on its side only
SkipsStale(a, b, x) ==
    IF x.stale
    THEN /\ b.gF = a.gF /\ b.gR = a.gR
         /\ b.prevF = a.prevF /\ b.nextR = a.nextR
         /\ b.visF = a.visF /\ b.visR = a.visR
         /\ b.bestPathCost = a.bestPathCost
         /\ b.meetingNode = a.meetingNode
         /\ b.lastExtractedGForward = a.lastExtractedGForward
         /\ b.lastExtractedGReverse = a.lastExtractedGReverse
    ELSE IF x.forward
    THEN b.visF = SetAt(a.visF, x.node, 1) /\ b.visR = a.visR
    ELSE b.visR = SetAt(a.visR, x.node, 1) /\ b.visF = a.visF

ExpandsOnceIn(t, x) ==
    /\ \A i \in 1..(Len(t) - 1) : SkipsStale(t[i], t[i + 1], x[i])
    /\ \A i, j \in 1..Len(x) :
          (/\ i < j
           /\ x[i].forward = x[j].forward
           /\ ~x[i].stale
           /\ ~x[j].stale) => x[i].node # x[j].node
    /\ LeftBehind(t[Len(t)])

ExpandsOnce(t) == ExpandsOnceIn(t, Extractions(t))

\* C30: within one getRoute no node is expanded twice on the same side, and
\* an iteration that extracts an entry of a node already visited on that side
\* changes no g value, pointer or visited flag, nor the best path cost or the
\* meeting node.
C30_ExpandsOnce == SearchedLast => ExpandsOnce(LastIterations)

SkippedOne(t) == \E i \in 1..(Len(t) - 1) : Stale(t[i])

\* A search that extracted an entry of a node it had already expanded on
\* that side
C30_Witness == SearchedLast /\ SkippedOne(LastIterations)

---------------------------------------------------------------------------
(***************************************************************************)
(* A query after other queries.                                            *)
(***************************************************************************)
\* C21: on a router whose graph stays as built, whatever getRoute calls were
\* made before it, getRoute(s, e) returns the coordinate sequence (or the
\* null) that a router newly constructed with the same heap class and
\* distance and built from the same network returns as its first answer.
C21_QueryIndependence == Answered => ret.route = RouteWith(heapConstructor)

\* The node objects of a heap hold two entries of key 0 for different nodes:
\* the starts of two queries
TwoStarts(h) ==
    \E i, j \in 1..Len(h.nodes) :
        /\ i < j
        /\ h.nodes[i].key = 0
        /\ h.nodes[j].key = 0
        /\ h.nodes[i].value # h.nodes[j].value

\* A route between opposite coordinates, which have two shortest routes,
\* returned by a search that stopped with entries left in its forward queue,
\* on heaps that an earlier query from another start had used
C21_Witness ==
    /\ Found
    /\ heapConstructor \in {"PairingHeap", "FibonacciHeap"}
    /\ TwoStarts(openForward.val)
    /\ HeapSize(openForward.val) > 0
    /\ Len(ret.route.val) = 3
    /\ Cardinality(ShortestPaths(ret.start, ret.end)) >= 2

---------------------------------------------------------------------------
(***************************************************************************)
(* Heap order of the array heaps of SpecHeap.                              *)
(***************************************************************************)
\* The pair (k1, i1) is not larger than the pair (k2, i2), key first
PairLeq(k1, i1, k2, i2) == k1 < k2 \/ (k1 = k2 /\ i1 <= i2)

\* Every node of a MinHeap but the first is not smaller than its parent
MinHeapOrdered(h) ==
    \A i \in 1..(Len(h.heap) - 1) :
        PairLeq(At(h.heap, (i - 1) \div 2).key, At(h.heap, (i - 1) \div 2).index,
                At(h.heap, i).key, At(h.heap, i).index)

\* Every live slot of a FourAryHeap but the first is not smaller than its parent
FourAryOrdered(h) ==
    \A i \in 1..(h.length - 1) :
        PairLeq(At(h.keys, (i - 1) \div 4), At(h.idxs, (i - 1) \div 4),
                At(h.keys, i), At(h.idxs, i))

\* C38: after every insert and extractMin (and every other call), the pair
\* (key, insertion index) at position i of a MinHeap is not smaller than the
\* pair at position floor((i - 1) / 2), and the pair at live position i of a
\* FourAryHeap is not smaller than the pair at floor((i - 1) / 4), for every
\* i in [1, size).
C38_HeapOrder ==
    pq # Null =>
        /\ pq.val.kind = "MinHeap" => MinHeapOrdered(pq.val)
        /\ pq.val.kind = "FourAryHeap" => FourAryOrdered(pq.val)

\* An array heap of four entries after an extractMin, with its last entry in
\* the second level below the root and two entries of the same key
C38_Witness ==
    /\ pq # Null
    /\ pq.val.kind \in {"MinHeap", "FourAryHeap"}
    /\ ret.op = "extractMin"
    /\ Len(Live) = 4
    /\ \E i, j \in 1..Len(Live) : i < j /\ Live[i].key = Live[j].key
    /\ \E i \in 1..Len(Live) : Live[i].key # Live[1].key

---------------------------------------------------------------------------
(***************************************************************************)
(* The root list of a FibonacciHeap after extractMin (SpecHeap).           *)
(***************************************************************************)
\* The roots of h: the nodes on the circular list of minNode
FibRoots(h) ==
    IF h.minNode = 0 THEN {}
    ELSE {FibRing(h.nodes, h.minNode, h.minNode, << >>)[i] :
              i \in 1..Len(FibRing(h.nodes, h.minNode, h.minNode, << >>))}

\* The nodes of h whose parent is r
FibChildrenOf(h, r) == {c \in 1..Len(h.nodes) : h.nodes[c].parent = r}

\* No two roots of h have the same degree, the degree of a root being both
\* its degree field and the number of its children
FibOneRootPerDegree(h) ==
    /\ \A r \in FibRoots(h) :
           /\ h.nodes[r].parent = 0
           /\ h.nodes[r].degree = Cardinality(FibChildrenOf(h, r))
    /\ \A r, s \in FibRoots(h) : r # s => h.nodes[r].degree # h.nodes[s].degree

\* minNode is a root whose key is the least key the heap holds
FibMinIsLeast(h) ==
    /\ h.minNode \in FibRoots(h)
    /\ h.nodes[h.minNode].key = LeastKey(Live)
    /\ \A r \in FibRoots(h) : h.nodes[h.minNode].key <= h.nodes[r].key

\* C37: after every extractMin of a FibonacciHeap that leaves the heap
\* non-empty, the root list holds at most one root of each degree, minNode is a
\* root of minimum key, and consolidate stayed within the degree table of
\* floor(log2 n) + 2 slots (n = totalNodes when it ran): no extractMin reads or
\* writes the table beyond it.
C37_Consolidated ==
    (pq # Null /\ pq.val.kind = "FibonacciHeap") =>
        /\ ~pq.val.threw
        /\ (ret.op = "extractMin" /\ pq.val.minNode # 0) =>
               /\ FibOneRootPerDegree(pq.val)
               /\ FibMinIsLeast(pq.val)

\* An extractMin that left five entries in two trees, one of them of degree 2,
\* the minimum not being the root of the larger tree
C37_Witness ==
    /\ pq # Null
    /\ pq.val.kind = "FibonacciHeap"
    /\ ret.op = "extractMin"
    /\ Len(Live) = 5
    /\ Cardinality(FibRoots(pq.val)) = 2
    /\ \E r \in FibRoots(pq.val) : pq.val.nodes[r].degree = 2 /\ r # pq.val.minNode

---------------------------------------------------------------------------
(***************************************************************************)
(* A query endpoint that is not on the network becomes a node.             *)
(***************************************************************************)
\* The endpoints of the call that were not interned before it, in the order
\* getRoute interns them: start, then end
NewNodes ==
    (IF ret'.start \in Created THEN <<ret'.start>> ELSE << >>)
        \o (IF ret'.end \in Created /\ ret'.end # ret'.start THEN <<ret'.end>> ELSE << >>)

\* C32: a getRoute endpoint that is not interned when the CSR exists is
\* appended to the coordinate table under the next index N (N + 1 for the
\* second of two new endpoints) and mapped to it; offsets gains one slot for
\* it, equal to the last offset before the call, so that its row is empty; its
\* slot of the adjacency list is allocated, empty; the neighbours and weights
\* arrays, the existing offsets, the row of every existing node, the index of
\* every interned coordinate and the other adjacency slots stay as they were.
C32_NewEndpoint ==
    [][(Routing /\ Created # {}) =>
          /\ coordinates' = coordinates \o NewNodes
          /\ \A k \in 1..Len(NewNodes) :
                /\ Indexed(coordinateIndexMap', NewNodes[k])
                /\ coordinateIndexMap'[NewNodes[k][1]][NewNodes[k][2]]
                       = Len(coordinates) + k - 1
                /\ At(csrOffsets'.val, Len(coordinates) + k)
                       = At(csrOffsets.val, Len(coordinates))
                /\ RowAfter(Len(coordinates) + k - 1) = << >>
                /\ Len(adjacencyList') >= Len(coordinates) + k
                /\ At(adjacencyList', Len(coordinates) + k - 1) = Ref(<< >>)
          /\ Len(csrOffsets'.val) = Len(csrOffsets.val) + Len(NewNodes)
          /\ Len(adjacencyList') = Len(coordinates')
          /\ csrIndices' = csrIndices
          /\ csrDistances' = csrDistances
          /\ \A u \in 0..(Len(coordinates) - 1) :
                /\ At(csrOffsets'.val, u) = At(csrOffsets.val, u)
                /\ RowAfter(u) = Row(u)
                /\ coordinateIndexMap'[At(coordinates, u)[1]][At(coordinates, u)[2]] = u
                /\ u + 1 <= Len(adjacencyList) => At(adjacencyList', u) = At(adjacencyList, u)
                /\ u + 1 > Len(adjacencyList) => At(adjacencyList', u) = Null]_vars

\* A query from a coordinate off a network with edges: it is the last node of
\* the table now, with an empty row and an empty adjacency slot, and no route
\* leaves it
C32_Witness ==
    /\ Answered
    /\ ~Occurs(ret.start)
    /\ Occurs(ret.end)
    /\ Len(csrIndices.val) > 0
    /\ Len(coordinates) = 3
    /\ At(coordinates, Len(coordinates) - 1) = ret.start
    /\ At(adjacencyList, Len(coordinates) - 1) = Ref(<< >>)
    /\ Row(Len(coordinates) - 1) = << >>
    /\ ret.route.null

---------------------------------------------------------------------------
(***************************************************************************)
(* The CSR covers every node, so that no search reads the adjacency list.  *)
(***************************************************************************)
\* An adjacency slot that leads to every node at distance 0
EveryNodeForFree == [k \in 1..Len(coordinates) |-> [node |-> k - 1, distance |-> 0]]

\* This router, every adjacency slot of a node replaced by EveryNodeForFree
OverlayReplaced ==
    [ThisRouter EXCEPT
        !.adjacencyList = [i \in 1..Len(coordinates) |-> Ref(EveryNodeForFree)]]

\* A getRoute outcome without the adjacency list it leaves: the answer, the
\* search state the main loop stopped in, the heaps, the coordinate table, the
\* interner and the offsets
BesidesOverlay(o) == [o EXCEPT !.graph.adj = << >>]

\* C33: once the graph is built, after every buildRouteGraph, expandRouteGraph
\* and getRoute, csrNodeCount is the number N of interned coordinates and
\* offsets has N + 1 entries; and no getRoute reads a neighbour from the
\* adjacency list: every query goes exactly as on a router whose adjacency
\* slots are replaced by slots that lead to every node for free.
C33_CsrCoversAll ==
    Grown =>
        /\ csrNodeCount = Len(coordinates)
        /\ ~csrOffsets.null
        /\ Len(csrOffsets.val) = csrNodeCount + 1
        /\ \A s, e \in LifecycleCoords :
              BesidesOverlay(RouteOn(OverlayReplaced, s, e))
                  = BesidesOverlay(GetRouteOutcome(s, e))

\* A route was found on an expanded network after a query had interned a
\* coordinate off the network: the new node has an adjacency slot, which
\* holds no entry
C33_Witness ==
    /\ Answered
    /\ ~ret.route.null
    /\ Len(network.val) = 2
    /\ \E c \in LifecycleCoords : Indexed(coordinateIndexMap, c) /\ ~Occurs(c)
    /\ \E i \in 1..Len(adjacencyList) : adjacencyList[i] = Ref(<< >>)

---------------------------------------------------------------------------
(***************************************************************************)
(* The pointer chains the last getRoute left, from its meeting node.       *)
(***************************************************************************)
\* The number of pointers to follow from cur to reach target, or -1 when a
\* pointer -1 comes first or target is not reached within `steps` pointers
RECURSIVE StepsTo(_, _, _, _)
StepsTo(ptr, cur, target, steps) ==
    IF cur = target THEN 0
    ELSE IF steps = 0 \/ At(ptr, cur) < 0 THEN -1
    ELSE IF StepsTo(ptr, At(ptr, cur), target, steps - 1) < 0 THEN -1
    ELSE 1 + StepsTo(ptr, At(ptr, cur), target, steps - 1)

\* The lengths of the two chains of the last search: prevF from the meeting
\* node to the start, nextR from the meeting node to the end
StepsBack ==
    StepsTo(cameFromScratch, ret.meetingNode, IndexOf(ret.start), Len(coordinates))

StepsOn ==
    StepsTo(cameFromRevScratch, ret.meetingNode, IndexOf(ret.end), Len(coordinates))

\* C35: whenever the main loop of a getRoute ends with a meeting node >= 0,
\* following prevF from the meeting node reaches the start index and
\* following nextR from it reaches the end index, neither chain meeting a -1
\* pointer, so that the call returns a route and none of the null returns of
\* the reconstruction.
C35_ChainsArrive ==
    (SearchedLast /\ ret.meetingNode >= 0) =>
        /\ StepsBack >= 0
        /\ StepsOn >= 0
        /\ ~ret.route.null
        /\ Len(ret.route.val) = StepsBack + StepsOn + 1

\* A search that met at a node two pointers from the start and one from the end
C35_Witness ==
    /\ SearchedLast
    /\ ret.meetingNode >= 0
    /\ StepsBack = 2
    /\ StepsOn = 1

---------------------------------------------------------------------------
(***************************************************************************)
(* The best path cost and the meeting node over the iterations of a search.*)
(***************************************************************************)
\* In the search state a: a meeting node exists exactly when the best path
\* cost is finite; the best path cost is then the sum of the two finite g
\* values of the meeting node; and no node with two finite g values has a
\* smaller sum
BestTracked(a) ==
    /\ (a.meetingNode >= 0) <=> (a.bestPathCost < Infinity)
    /\ a.meetingNode >= 0 =>
          /\ At(a.gF, a.meetingNode) < Infinity
          /\ At(a.gR, a.meetingNode) < Infinity
          /\ a.bestPathCost = At(a.gF, a.meetingNode) + At(a.gR, a.meetingNode)
    /\ \A v \in 0..(Len(a.gF) - 1) :
          (At(a.gF, v) < Infinity /\ At(a.gR, v) < Infinity)
              => a.bestPathCost <= At(a.gF, v) + At(a.gR, v)

BestTrackedIn(t) ==
    /\ \A i \in 1..Len(t) : BestTracked(t[i])
    /\ \A i \in 1..(Len(t) - 1) : t[i + 1].bestPathCost <= t[i].bestPathCost
    /\ LeftBehind(t[Len(t)])

\* C36: at the head of every iteration of the main loop and when the loop
\* stops, meeting >= 0 holds exactly when best < +infinity, best is then
\* g_forward[meeting] + g_reverse[meeting], both finite, best is at most
\* g_forward[v] + g_reverse[v] for every node v with two finite g values, and
\* best is never larger than an iteration before.
C36_BestTracked == SearchedLast => BestTrackedIn(LastIterations)

\* The best path cost was lowered from one finite value to another
BestLowered(t) ==
    \E i \in 1..(Len(t) - 1) :
        /\ t[i].meetingNode >= 0
        /\ t[i + 1].bestPathCost < t[i].bestPathCost
        /\ t[i + 1].meetingNode # t[i].meetingNode

\* A search that found a meeting node and later a better one
C36_Witness == SearchedLast /\ BestLowered(LastIterations)

---------------------------------------------------------------------------
(***************************************************************************)
(* Segments from a coordinate to itself (SpecSearch).                      *)
(***************************************************************************)
\* The LineString l without the coordinates that repeat their predecessor
RECURSIVE DropRepeats(_)
DropRepeats(l) ==
    IF Len(l) < 2 THEN l
    ELSE IF l[1] = l[2] THEN DropRepeats(Tail(l))
    ELSE <<l[1]>> \o DropRepeats(Tail(l))

WithoutRepeats(features) == [f \in 1..Len(features) |-> DropRepeats(features[f])]

\* The row of node u without its entries that lead to u
RowWithoutLoops(u) == SelectSeq(Row(u), LAMBDA entry : entry.node # u)

RowsWithoutLoops == [n \in 1..Len(coordinates) |-> RowWithoutLoops(n - 1)]

\* The router as constructed, its CSR holding the entries `flat`, row by row
WithEntries(offsets, flat) ==
    [AsConstructed EXCEPT
        !.csrOffsets = Ref(offsets),
        !.csrIndices = Ref([k \in 1..Len(flat) |-> flat[k].node]),
        !.csrDistances = Ref([k \in 1..Len(flat) |-> flat[k].distance])]

\* The router as constructed, the entries (u, 0) of every row u taken out of
\* its CSR
WithoutLoops ==
    WithEntries(RowOffsets(RowsWithoutLoops, Len(coordinates)), Flatten(RowsWithoutLoops))

\* The router after construction and buildRouteGraph, of which g is the graph
RouterOf(g, fn, kind) ==
    [distanceMeasurement |-> fn, heapConstructor |-> kind,
     coordinateIndexMap |-> g.coordinateIndexMap, coordinates |-> g.coordinates,
     adjacencyList |-> g.adjacencyList, csrOffsets |-> g.csrOffsets,
     csrIndices |-> g.csrIndices, csrDistances |-> g.csrDistances,
     csrNodeCount |-> g.csrNodeCount,
     gScoreScratch |-> << >>, cameFromScratch |-> << >>, visitedScratch |-> << >>,
     gScoreRevScratch |-> << >>, cameFromRevScratch |-> << >>,
     visitedRevScratch |-> << >>, scratchCapacity |-> 0,
     openForward |-> Null, openReverse |-> Null]

\* The network has a coordinate that repeats its predecessor
Repeats == WithoutRepeats(network.val) # network.val

\* Node u has an entry (u, 0) in its row
HasLoop(u) == \E k \in 1..Len(Row(u)) : Row(u)[k].node = u /\ Row(u)[k].distance = 0

\* C31: the entries (u, 0) that consecutive duplicate coordinates give the
\* row of u are never relaxed: the search of a getRoute stops in the very
\* state (g values, pointers, visited flags, both queues, best path cost and
\* meeting node) in which it stops on the CSR without these entries; and the
\* call returns the route it returns on a router built from the network with
\* the duplicates removed.
C31_SelfLoops ==
    (Answered /\ Repeats) =>
        /\ ret.route = RouteOn(RouterOf(BuiltGraph(WithoutRepeats(network.val),
                                                   distanceMeasurement),
                                        distanceMeasurement, heapConstructor),
                               ret.start, ret.end).route
        /\ ret.searched =>
              /\ LeftBehind(LastSearch.st)
              /\ RouteOn(WithoutLoops, ret.start, ret.end).st = LastSearch.st

\* A route over three nodes or more through a node whose row holds an entry
\* to itself, found by a search that expanded that node forward
C31_Witness ==
    /\ SearchedLast
    /\ ~ret.route.null
    /\ Len(ret.route.val) >= 3
    /\ \E i \in 2..(Len(ret.route.val) - 1) :
          /\ HasLoop(IndexOf(ret.route.val[i]))
          /\ At(visitedScratch, IndexOf(ret.route.val[i])) = 1

---------------------------------------------------------------------------
(***************************************************************************)
(* SpecSteps: getRoute taken one step at a time, a step being the entry    *)
(* of the call up to the main loop, the test at the head of the main loop, *)
(* the body of one iteration, or one iteration of either reconstruction    *)
(* walk.  The locals of the call in progress (bestPathCost, meetingNode,   *)
(* the two lastExtractedG, cur, path) are fields of ret, with the position *)
(* pc of the call: "loop" (at the head of the main loop), "body", "back",  *)
(* "on" or "done"; openForward and openReverse hold the two queues of the  *)
(* search.  One query is made per router, on every network of one          *)
(* LineString of MaxStepLineLen coordinates without consecutive repeats.   *)
(***************************************************************************)
MaxStepLineLen == 4

StepNetworks == {<<l>> : l \in Walks(Coords, MaxStepLineLen)}

\* The call in progress is at pc
InCall(pc) == ret.op = "getRoute" /\ ret.pc = pc

\* The search state of the call in progress
LoopState ==
    [gF |-> gScoreScratch, gR |-> gScoreRevScratch,
     prevF |-> cameFromScratch, nextR |-> cameFromRevScratch,
     visF |-> visitedScratch, visR |-> visitedRevScratch,
     openF |-> openForward.val, openR |-> openReverse.val,
     bestPathCost |-> ret.bestPathCost, meetingNode |-> ret.meetingNode,
     lastExtractedGForward |-> ret.lastExtractedGForward,
     lastExtractedGReverse |-> ret.lastExtractedGReverse]

\* The search state st becomes the state of the call in progress, frame its
\* other locals
StoreLoopState(st, frame) ==
    /\ gScoreScratch' = st.gF
    /\ gScoreRevScratch' = st.gR
    /\ cameFromScratch' = st.prevF
    /\ cameFromRevScratch' = st.nextR
    /\ visitedScratch' = st.visF
    /\ visitedRevScratch' = st.visR
    /\ openForward' = Ref(st.openF)
    /\ openReverse' = Ref(st.openR)
    /\ ret' = [frame EXCEPT !.bestPathCost = st.bestPathCost,
                            !.meetingNode = st.meetingNode,
                            !.lastExtractedGForward = st.lastExtractedGForward,
                            !.lastExtractedGReverse = st.lastExtractedGReverse]

\* The locals of a call that has interned its endpoints
EnteredCall(start, end, startIndex, endIndex, pc) ==
    [op |-> "getRoute", threw |-> FALSE, start |-> start, end |-> end,
     startIndex |-> startIndex, endIndex |-> endIndex, pc |-> pc,
     bestPathCost |-> Infinity, meetingNode |-> -1,
     lastExtractedGForward |-> 0, lastExtractedGReverse |-> 0,
     cur |-> -1, path |-> << >>, route |-> Null]

StepBuild ==
    /\ network.null
    /\ \E net \in StepNetworks : BuildRouteGraph(net)

\* getRoute from its entry to the head of the main loop, or to the return on
\* equal endpoints
StepEnterWith(start, end, gs, ge) ==
    /\ coordinateIndexMap' = ge.map
    /\ coordinates' = ge.coords
    /\ adjacencyList' = ge.adj
    /\ csrOffsets' = ge.offsets
    /\ csrNodeCount' = ge.nodeCount
    /\ UNCHANGED <<network, fixedVars, csrIndices, csrDistances>>
    /\ IF gs.index = ge.index
       THEN /\ ret' = EnteredCall(start, end, gs.index, ge.index, "done")
            /\ UNCHANGED scratchVars
       ELSE /\ scratchCapacity' = IF scratchCapacity >= Len(ge.coords)
                                  THEN scratchCapacity ELSE Len(ge.coords)
            /\ \E st \in {InitialSearch(ThisRouter, gs.index, ge.index, Len(ge.coords))} :
                  StoreLoopState(st, EnteredCall(start, end, gs.index, ge.index, "loop"))

StepEnter ==
    /\ ret.op = "buildRouteGraph"
    /\ \E start \in Coords, end \in Coords :
          \E gs \in {GetOrCreateIndex(start, GraphState(ThisRouter))} :
              \E ge \in {GetOrCreateIndex(end, gs)} : StepEnterWith(start, end, gs, ge)

\* while (openF.size() > 0 && openR.size() > 0) { if (...) break; ...
Continues(st) ==
    /\ HeapSize(st.openF) > 0
    /\ HeapSize(st.openR) > 0
    /\ ~ShouldStop(st)

\* The head of the main loop: into the body, or out of the loop, to return
\* null without a meeting node, else to start the walk back from it
StepHead ==
    /\ InCall("loop")
    /\ ret' = IF Continues(LoopState) THEN [ret EXCEPT !.pc = "body"]
              ELSE IF ret.meetingNode < 0 THEN [ret EXCEPT !.pc = "done"]
              ELSE [ret EXCEPT !.pc = "back", !.cur = ret.meetingNode]
    /\ UNCHANGED <<graphVars, fixedVars, scratchVars>>

\* The search state after the body of one iteration from st
Iterated(st) ==
    IF ExpandsForward(st)
    THEN AfterForward(st, ExpandSide(ForwardSide(st),
                          [offsets |-> csrOffsets, indices |-> csrIndices,
                           distances |-> csrDistances, nodeCount |-> csrNodeCount],
                          adjacencyList))
    ELSE AfterReverse(st, ExpandSide(ReverseSide(st),
                          [offsets |-> csrOffsets, indices |-> csrIndices,
                           distances |-> csrDistances, nodeCount |-> csrNodeCount],
                          adjacencyList))

\* The body of one iteration of the main loop, back to its head
StepBody ==
    /\ InCall("body")
    /\ \E next \in {Iterated(LoopState)} : StoreLoopState(next, [ret EXCEPT !.pc = "loop"])
    /\ UNCHANGED <<graphVars, fixedVars, scratchCapacity>>

\* One iteration of the walk back from the meeting node to the start, or what
\* follows the walk: return null, or reverse the path and start the walk on
StepBack ==
    /\ InCall("back")
    /\ ret' = IF ret.cur # ret.startIndex /\ ret.cur >= 0
              THEN [ret EXCEPT !.path = Append(@, ret.cur),
                               !.cur = At(cameFromScratch, ret.cur)]
              ELSE IF ret.cur # ret.startIndex THEN [ret EXCEPT !.pc = "done"]
              ELSE [ret EXCEPT !.pc = "on",
                               !.path = Reverse(Append(@, ret.startIndex)),
                               !.cur = ret.meetingNode]
    /\ UNCHANGED <<graphVars, fixedVars, scratchVars>>

\* One iteration of the walk from the meeting node to the end, or the return
\* of the route
StepOn ==
    /\ InCall("on")
    /\ ret' = IF ret.cur = ret.endIndex
              THEN [ret EXCEPT !.pc = "done",
                               !.route = PathCoordinates(Ref(ret.path), coordinates)]
              ELSE IF At(cameFromRevScratch, ret.cur) < 0 THEN [ret EXCEPT !.pc = "done"]
              ELSE [ret EXCEPT !.cur = At(cameFromRevScratch, ret.cur),
                               !.path = Append(@, At(cameFromRevScratch, ret.cur))]
    /\ UNCHANGED <<graphVars, fixedVars, scratchVars>>

\* The steps of a call in progress but the body of the loop
StepOutsideBody == StepHead \/ StepBack \/ StepOn

NextSteps == StepBuild \/ StepEnter \/ StepBody \/ StepOutsideBody

\* A step left the body of the loop
BodyDone == InCall("body") /\ ret'.pc = "loop"

\* A call in progress is run on: getRoute is sequential code that nothing
\* suspends.  The last conjunct is weak fairness of StepBody, whose
\* enabledness is written as its guard: StepBody is enabled in every state
\* at "body", and always changes pc.
SpecSteps ==
    /\ QueuesInit
    /\ [][NextSteps]_vars
    /\ WF_vars(StepOutsideBody)
    /\ ([]<>(~InCall("body")) \/ []<><<BodyDone>>_vars)

\* The call has returned, with a path of at most N nodes
Returned == InCall("done") /\ Len(ret.path) <= Len(coordinates)

\* C34: every getRoute call returns: from every state of a call in progress
\* the call reaches its return, so that its main loop makes finitely many
\* extractions and its two reconstruction walks finitely many steps, the
\* path they collect holding at most N nodes.
C34_Terminates == (ret.op = "getRoute") ~> Returned

\* A call that returned a route over four nodes
C34_Witness ==
    /\ InCall("done")
    /\ ~ret.route.null
    /\ Len(ret.route.val) = 4
    /\ ret.meetingNode >= 0
    /\ ret.lastExtractedGForward > 0
====
